---- MODULE Spec2Model ----
(***************************************************************************)
(* Jumping Dino: a webcam pose stream is turned into debounced jump        *)
(* events that are sent to the Chrome dino engine as synthetic space key   *)
(* taps, and a round/session controller scores each round once.            *)
(*                                                                         *)
(* Three variants of the application are modelled:                        *)
(*   "arcade"  src/unnamed/part_000 lines 49-598 with the DinoGame         *)
(*             component of src/unnamed/part_001 (player name, START /     *)
(*             PLAYING / GAME_OVER, isGameActiveRef guard, Firebase        *)
(*             leaderboard);                                               *)
(*   "basic"   src/src/App.jsx (detector and key synthesis only);          *)
(*   "local"   src/unnamed/part_000 lines 602-1059 (no name, no guard, a   *)
(*             local top-5 leaderboard), under its own Init and Next.      *)
(*                                                                         *)
(* Units.  Time is in milliseconds, as Date.now() reports it.  Landmark    *)
(* heights are normalised coordinates in units of 1/10000, so 0.04 is 400  *)
(* and 0.0401 is 401.  Play time is kept in milliseconds: the code's       *)
(* seconds are this value divided by 1000.                                 *)
(*                                                                         *)
(* The browser runs every handler to completion on one event loop, so      *)
(* every handler is one action.  A timer callback runs when its delay has  *)
(* elapsed: the clock does not pass a due timer.                           *)
(*                                                                         *)
(* Specifications.  Spec is the arcade and the basic variant; SpecFair     *)
(* adds the fairness of the timers; SpecPoseTracking and SpecResetTracking *)
(* keep one more history each; SpecLocal is the local variant;             *)
(* SpecEngineAndStore follows the engine hook (re-runs of the effect that  *)
(* installs it, every engine game-over) and the outcomes of the writes to  *)
(* the shared store, with the camera and the clock left out, and           *)
(* SpecEngineAndStoreFair adds the fairness of the readiness pollers.      *)
(***************************************************************************)
EXTENDS Integers, Sequences, FiniteSets, TLC

\* ------------------------------------------------------------------ bounds
\* The clock reading at page load; Date.now() is far above the 500 ms
\* cooldown, so the first check against lastJumpTimeRef = 0 always passes.
Epoch == 1000
\* How many rounds are started (name submits and retries together).
MaxRounds == 2

\* Runs of the effect that installs the engine hook that are followed.
MaxEffectRuns == 3

\* Engine game-overs that are tracked.
MaxHookCalls == 3
\* The instants at which the environment (camera, engine, user) acts, besides
\* the timer deadlines: page load, and the instants exactly 500 ms and 501 ms
\* after page load.
Instants == {Epoch, Epoch + 500, Epoch + 501}

\* --------------------------------------------------------- program constants
JumpThreshold == 400
JumpCooldown == 500
KeyUpDelay == 100
NameMaxLen == 10
LocalTopN == 5
HighlightDelay == 3000

\* ------------------------------------------------------------- input sets
NoPose == [landmarks |-> FALSE, left |-> 0, right |-> 0]

PoseFrame(l, r) == [landmarks |-> TRUE, left |-> l, right |-> r]

\* The frames the camera may deliver: one without landmarks, and shoulder
\* pairs whose averages are 5000, 5400 and 5401, so that a rise is exactly
\* 400 (0.04), 401 (0.0401) or 1.
Frames == {NoPose, PoseFrame(5000, 5000), PoseFrame(5400, 5400), PoseFrame(5400, 5402)}

\* What the user may have typed into the name field.
InputNames == {<<" ">>, <<" ", "a", "B", " ">>}

\* The name a previous session may have left in localStorage.
StoredNames == {<< >>, <<"A", "B">>}

\* What Runner.instance_.distanceMeter.digits may hold when it is read:
\* absent (the read throws), empty, non-numeric, and a score.
EngineReadings ==
    { [ok |-> FALSE, digits |-> << >>],
      [ok |-> TRUE, digits |-> << >>],
      [ok |-> TRUE, digits |-> <<"x">>],
      [ok |-> TRUE, digits |-> <<"0", "0", "5">>] }

\* ------------------------------------------------------------ pure helpers
Min(a, b) == IF a < b THEN a ELSE b

Max(a, b) == IF a > b THEN a ELSE b

RECURSIVE TrimStart(_)
TrimStart(s) ==
    IF s # << >> /\ Head(s) = " " THEN TrimStart(Tail(s)) ELSE s

RECURSIVE TrimEnd(_)
TrimEnd(s) ==
    IF s # << >> /\ s[Len(s)] = " " THEN TrimEnd(SubSeq(s, 1, Len(s) - 1)) ELSE s

\* String.prototype.trim
Trim(s) == TrimEnd(TrimStart(s))

UpperChar(c) ==
    CASE c = "a" -> "A"
      [] c = "b" -> "B"
      [] OTHER -> c

\* String.prototype.toUpperCase
ToUpperCase(s) == [i \in DOMAIN s |-> UpperChar(s[i])]

\* String.prototype.slice(0, n)
Slice(s, n) == SubSeq(s, 1, Min(Len(s), n))

\* inputName.trim().toUpperCase().slice(0, 10)
NormalizeName(input) == Slice(ToUpperCase(Trim(input)), NameMaxLen)

DigitChars == {"0", "1", "2", "3", "4", "5", "6", "7", "8", "9"}

DigitValue(c) ==
    CASE c = "0" -> 0 [] c = "1" -> 1 [] c = "2" -> 2 [] c = "3" -> 3
      [] c = "4" -> 4 [] c = "5" -> 5 [] c = "6" -> 6 [] c = "7" -> 7
      [] c = "8" -> 8 [] c = "9" -> 9

\* The longest prefix of s made of decimal digits.
RECURSIVE LeadingDigits(_)
LeadingDigits(s) ==
    IF s # << >> /\ Head(s) \in DigitChars
    THEN <<Head(s)>> \o LeadingDigits(Tail(s))
    ELSE << >>

RECURSIVE DecimalValue(_)
DecimalValue(ds) ==
    IF ds = << >> THEN 0
    ELSE 10 * DecimalValue(SubSeq(ds, 1, Len(ds) - 1)) + DigitValue(ds[Len(ds)])

\* A read without the || 0 fallback: NaN, shown as -1, reaches the score.
ReadScoreNoFallback(reading) ==
    IF ~reading.ok THEN 0
    ELSE LET lead == LeadingDigits(reading.digits)
         IN  IF lead = << >> THEN -1 ELSE DecimalValue(lead)

\* parseInt(digits.join(""), 10) || 0 inside try/catch: a read that throws,
\* an empty or non-numeric string (NaN) and the value 0 all give 0.
ReadScore(reading) ==
    IF ~reading.ok THEN 0
    ELSE LET joined == [i \in DOMAIN reading.digits |-> reading.digits[i]]
             lead == LeadingDigits(joined)
         IN  IF lead = << >> THEN 0 ELSE DecimalValue(lead)

\* (leftShoulder.y + rightShoulder.y) / 2
AvgShoulderY(frame) == (frame.left + frame.right) \div 2

\* Math.round(roundTime) of the seconds, from the milliseconds.
RoundSeconds(ms) == (ms + 500) \div 1000

\* An insertion that puts the new entry before the entries of equal score.
RECURSIVE InsertDescBeforeEqual(_, _)
InsertDescBeforeEqual(sorted, e) ==
    IF sorted = << >> THEN <<e>>
    ELSE IF Head(sorted).score > e.score
         THEN <<Head(sorted)>> \o InsertDescBeforeEqual(Tail(sorted), e)
         ELSE <<e>> \o sorted

\* [...prev, entry].sort((a, b) => b.score - a.score) is a stable sort:
\* InsertDesc puts e after every entry whose score is not smaller.
RECURSIVE InsertDesc(_, _)
InsertDesc(sorted, e) ==
    IF sorted = << >> THEN <<e>>
    ELSE IF Head(sorted).score >= e.score
         THEN <<Head(sorted)>> \o InsertDesc(Tail(sorted), e)
         ELSE <<e>> \o sorted

RECURSIVE SortByScoreDesc(_)
SortByScoreDesc(list) ==
    IF list = << >> THEN << >>
    ELSE InsertDesc(SortByScoreDesc(SubSeq(list, 1, Len(list) - 1)), list[Len(list)])

\* Leaderboard records other sessions have written to the shared store.
OtherEntry(score, ts) ==
    [name |-> <<"Z">>, score |-> score, timestamp |-> ts, jumps |-> 1, time |-> 1,
     gameMode |-> "arcade"]

\* What snapshot.val() of the top-10 query may deliver, as Object.values
\* lists it: null (no data) is the empty sequence.
Snapshots ==
    { << >>,
      <<OtherEntry(9, 20), OtherEntry(5, 10), OtherEntry(9, 30)>> }

\* ------------------------------------------------------------------ state
VARIABLES
    variant,          \* which application is running
    now,              \* Date.now()
    prevShoulder,     \* prevShoulderRef: << >> is null, <<y>> a sample
    lastJumpTime,     \* lastJumpTimeRef
    keyUpTimers,      \* pending setTimeout(keyup, 100) deadlines, oldest first
    keyLog,           \* the key events dispatched to document, in order
    jumpLog,          \* the JumpEvents emitted: time, round, diff and elapsed (history)
    lastSample,       \* the average of the last frame with landmarks, << >>
                      \* before the first (history)
    lastFrame,        \* "none" before the first frame with landmarks, "pose"
                      \* after a frame with landmarks, "lost" after a frame
                      \* without, where pose loss is tracked (history)
    gameState,        \* useState gameState
    isGameActive,     \* isGameActiveRef
    jumpCount,        \* jumpCountRef
    roundStart,       \* roundStartRef
    inputName,        \* useState inputName
    playerName,       \* useState playerName
    playerNameRef,    \* playerNameRef
    storedName,       \* localStorage dino_player_name
    sessionStats,     \* useState sessionStats
    storedStats,      \* localStorage dino_session_stats
    streak,           \* useState streak
    storedStreak,     \* localStorage dino_streak
    lastGameScore,    \* useState lastGameScore: << >> is null
    leaderboard,      \* useState leaderboard
    storedLeaderboard,\* localStorage dino_leaderboard
    pushed,           \* the push() calls issued to the shared store, each with its round
    runnerReady,      \* window.Runner.instance_ exists
    gameOverPatched,  \* Runner.instance_.gameOver.isPatched
    checkRunners,     \* the effect runs whose 50 ms readiness interval is still set
    effectRuns,       \* runs of the effect that installs the hook so far
    wrappers,         \* the wrappers put around the engine's gameOver so far
    hookCalls,        \* engine game-overs so far, where they are tracked (history)
    hookTrace,        \* what the last tracked engine game-over ran, in order (history)
    writeStatus,      \* the outcome of each push() so far: "pending", "saved", "failed"
    restartCalls,     \* Runner.instance_.restart() calls made by the controller
    roundNo,          \* rounds started so far (history)
    theme,            \* useState theme
    storedTheme,      \* localStorage dino_theme
    newHighlight,     \* useState newHighlight: the highlighted row, -1 for none
    highlightTimers,  \* pending setTimeout(setNewHighlight(-1), 3000) deadlines
    roundLog,         \* the results of the accepted game-overs, in order (history)
    statsSince        \* where the stats last started from zero, at page load or
                      \* by resetStats: the accepted game-overs before it and,
                      \* where resets are tracked, the controller state (history)

vars ==
    <<variant, now, prevShoulder, lastJumpTime, keyUpTimers, keyLog, jumpLog,
      lastSample, lastFrame, gameState, isGameActive, jumpCount, roundStart, inputName, playerName,
      playerNameRef, storedName, sessionStats, storedStats, streak, storedStreak,
      lastGameScore, leaderboard, storedLeaderboard, pushed, runnerReady,
      gameOverPatched, checkRunners, effectRuns, wrappers, hookCalls, hookTrace,
      writeStatus, restartCalls, roundNo, theme, storedTheme,
      newHighlight, highlightTimers, roundLog, statsSince>>

uiVars == <<theme, storedTheme, newHighlight, highlightTimers>>

logVars == <<roundLog, statsSince>>

detectorVars ==
    <<prevShoulder, lastJumpTime, keyUpTimers, keyLog, jumpLog, lastSample, lastFrame>>

roundVars == <<gameState, isGameActive, jumpCount, roundStart>>

nameVars == <<inputName, playerName, playerNameRef, storedName>>

statsVars == <<sessionStats, storedStats, streak, storedStreak, lastGameScore>>

boardVars == <<leaderboard, storedLeaderboard>>

engineVars == <<runnerReady, gameOverPatched, checkRunners, restartCalls>>

hookVars == <<effectRuns, wrappers, hookCalls, hookTrace>>

\* ------------------------------------------------------------------- Init
EmptyStats == [totalJumps |-> 0, totalPlayTime |-> 0, totalScore |-> 0, roundsPlayed |-> 0]

EmptyStreak == [current |-> 0, best |-> 0, lastScore |-> 0]

\* A detector seeded with a sample (the bottom of the frame) instead of null.
SeededPrevShoulder == <<10000>>

\* useRef(null) for prevShoulderRef
InitialPrevShoulder == << >>

\* useRef(0) for lastJumpTimeRef
InitialLastJumpTime == 0

\* loadStored(STORAGE_KEYS.THEME, "dark") with nothing stored
DefaultTheme == "dark"

Variants == {"arcade", "basic"}

\* The variants with session stats, streak, leaderboard and theme.
ScoredVariants == {"arcade", "local"}

Init ==
    /\ variant \in Variants
    /\ now = Epoch
    /\ prevShoulder = InitialPrevShoulder
    /\ lastJumpTime = InitialLastJumpTime
    /\ keyUpTimers = << >>
    /\ keyLog = << >>
    /\ jumpLog = << >>
    /\ lastSample = << >>
    /\ lastFrame = "none"
    /\ gameState = "START"
    /\ isGameActive = FALSE
    /\ jumpCount = 0
    /\ roundStart = Epoch
    /\ storedName \in (IF variant = "arcade" THEN StoredNames ELSE {<< >>})
    /\ inputName = storedName
    /\ playerName = storedName
    /\ playerNameRef = storedName
    /\ sessionStats = EmptyStats
    /\ storedStats = EmptyStats
    /\ streak = EmptyStreak
    /\ storedStreak = EmptyStreak
    /\ lastGameScore = << >>
    /\ leaderboard = << >>
    /\ storedLeaderboard = << >>
    /\ pushed = << >>
    /\ runnerReady = FALSE
    /\ gameOverPatched = FALSE
    /\ checkRunners = {1}
    /\ effectRuns = 1
    /\ wrappers = 0
    /\ hookCalls = 0
    /\ hookTrace = << >>
    /\ writeStatus = << >>
    /\ restartCalls = 0
    /\ roundNo = 0
    /\ theme = DefaultTheme
    /\ storedTheme = DefaultTheme
    /\ newHighlight = -1
    /\ highlightTimers = << >>
    /\ roundLog = << >>
    /\ statsSince = [rounds |-> 0, state |-> "none"]

\* ------------------------------------------------------- time and timers
\* The clock advances to a later instant or timer deadline; it stops at a
\* due key-up timer until that has run.
Tick(t) ==
    /\ t > now
    /\ keyUpTimers # << >> => t <= Head(keyUpTimers)
    /\ highlightTimers # << >> => t <= Head(highlightTimers)
    /\ now' = t
    /\ UNCHANGED <<variant, hookVars, writeStatus, uiVars, logVars, detectorVars,
                   roundVars, nameVars, statsVars, boardVars, pushed, engineVars,
                   roundNo>>

\* The setTimeout callback of simulateSpacebar: dispatch the key-up.
KeyUpTimeout ==
    /\ keyUpTimers # << >>
    /\ Head(keyUpTimers) <= now
    /\ keyLog' = Append(keyLog, [kind |-> "keyup", t |-> now])
    /\ keyUpTimers' = Tail(keyUpTimers)
    /\ UNCHANGED <<variant, hookVars, writeStatus, uiVars, logVars, now, prevShoulder,
                   lastJumpTime, jumpLog, lastSample, lastFrame, roundVars, nameVars,
                   statsVars, boardVars, pushed, engineVars, roundNo>>

\* Time passes until the oldest pending key-up is due.
TickToKeyUp ==
    /\ keyUpTimers # << >>
    /\ Tick(Head(keyUpTimers))

\* --------------------------------------------------------- jump detector
\* A cooldown of 99 ms, shorter than the key-up delay.
JumpConditionCooldownBelowKeyUp(diff, elapsed) ==
    diff > JumpThreshold /\ elapsed > KeyUpDelay - 1

\* The cooldown compared with >= instead of >.
JumpConditionInclusiveCooldown(diff, elapsed) ==
    diff > JumpThreshold /\ elapsed >= JumpCooldown

\* The threshold compared with >= instead of >.
JumpConditionInclusiveThreshold(diff, elapsed) ==
    diff >= JumpThreshold /\ elapsed > JumpCooldown

\* diff > 0.04 && now - lastJumpTimeRef.current > 500
JumpCondition(diff, elapsed) ==
    diff > JumpThreshold /\ elapsed > JumpCooldown

\* A detector that does not look at the round.
DetectorArmedUngated(prev, active) ==
    prev # << >>

\* prevShoulderRef.current !== null && isGameActiveRef.current
DetectorArmedArcade(prev, active) ==
    prev # << >> /\ active

\* prevShoulderRef.current !== null
DetectorArmedBasic(prev) ==
    prev # << >>

\* const diff = prevShoulderRef.current - avgShoulderY
ShoulderDiff(prev, avg) == prev[1] - avg

\* Whether this frame emits a JumpEvent, from the state the callback reads.
EmitsJump(armed, avg) ==
    armed /\ JumpCondition(ShoulderDiff(prevShoulder, avg), now - lastJumpTime)

\* The history record of a JumpEvent emitted on a frame of average avg.
JumpRecord(avg) ==
    [t |-> now,
     round |-> IF variant = "local" \/ (variant = "arcade" /\ isGameActive)
               THEN roundNo ELSE 0,
     diff |-> ShoulderDiff(prevShoulder, avg), elapsed |-> now - lastJumpTime]

\* A key tap that never schedules its key-up.
SimulateSpacebarNoKeyUp ==
    /\ keyLog' = Append(keyLog, [kind |-> "keydown", t |-> now])
    /\ keyUpTimers' = keyUpTimers

\* simulateSpacebar: dispatch keydown now, schedule keyup in 100 ms.
SimulateSpacebar ==
    /\ keyLog' = Append(keyLog, [kind |-> "keydown", t |-> now])
    /\ keyUpTimers' = Append(keyUpTimers, now + KeyUpDelay)

\* What pose.onResults does to prevShoulderRef on a frame without landmarks.
PrevShoulderOnPoseLoss(prev) == prev

\* The history of pose loss: kept only where track says so, and only once
\* a first sample has been seen.
FrameLost(track) == IF track /\ lastFrame # "none" THEN "lost" ELSE lastFrame

\* A detector that keeps its sample as a baseline until a jump is emitted.
OnResultsArcadeKeepsBaseline(frame, track) ==
    /\ variant = "arcade"
    /\ IF frame.landmarks
       THEN LET avg == AvgShoulderY(frame) IN
            /\ IF EmitsJump(DetectorArmedArcade(prevShoulder, isGameActive), avg)
               THEN /\ SimulateSpacebar
                    /\ lastJumpTime' = now
                    /\ jumpCount' = jumpCount + 1
                    /\ jumpLog' = Append(jumpLog, JumpRecord(avg))
                    /\ prevShoulder' = <<avg>>
               ELSE /\ UNCHANGED <<keyLog, keyUpTimers, lastJumpTime, jumpCount, jumpLog>>
                    /\ prevShoulder' = (IF prevShoulder = << >> THEN <<avg>>
                                        ELSE prevShoulder)
            /\ lastSample' = <<avg>>
            /\ lastFrame' = "pose"
       ELSE /\ prevShoulder' = PrevShoulderOnPoseLoss(prevShoulder)
            /\ lastSample' = lastSample
            /\ lastFrame' = FrameLost(track)
            /\ UNCHANGED <<keyLog, keyUpTimers, lastJumpTime, jumpCount, jumpLog>>
    /\ UNCHANGED <<variant, hookVars, writeStatus, uiVars, logVars, now, gameState,
                   isGameActive, roundStart, nameVars, statsVars, boardVars, pushed,
                   engineVars, roundNo>>

\* pose.onResults of the arcade variant.
OnResultsArcade(frame, track) ==
    /\ variant = "arcade"
    /\ IF frame.landmarks
       THEN LET avg == AvgShoulderY(frame) IN
            /\ IF EmitsJump(DetectorArmedArcade(prevShoulder, isGameActive), avg)
               THEN /\ SimulateSpacebar
                    /\ lastJumpTime' = now
                    /\ jumpCount' = jumpCount + 1
                    /\ jumpLog' = Append(jumpLog, JumpRecord(avg))
               ELSE UNCHANGED <<keyLog, keyUpTimers, lastJumpTime, jumpCount, jumpLog>>
            /\ prevShoulder' = <<avg>>
            /\ lastSample' = <<avg>>
            /\ lastFrame' = "pose"
       ELSE /\ prevShoulder' = PrevShoulderOnPoseLoss(prevShoulder)
            /\ lastSample' = lastSample
            /\ lastFrame' = FrameLost(track)
            /\ UNCHANGED <<keyLog, keyUpTimers, lastJumpTime, jumpCount, jumpLog>>
    /\ UNCHANGED <<variant, hookVars, writeStatus, uiVars, logVars, now, gameState,
                   isGameActive, roundStart, nameVars, statsVars, boardVars, pushed,
                   engineVars, roundNo>>

\* pose.onResults of the basic variant: no round, no jump counter.
OnResultsBasic(frame, track) ==
    /\ variant = "basic"
    /\ IF frame.landmarks
       THEN LET avg == AvgShoulderY(frame) IN
            /\ IF EmitsJump(DetectorArmedBasic(prevShoulder), avg)
               THEN /\ SimulateSpacebar
                    /\ lastJumpTime' = now
                    /\ jumpLog' = Append(jumpLog, JumpRecord(avg))
               ELSE UNCHANGED <<keyLog, keyUpTimers, lastJumpTime, jumpLog>>
            /\ prevShoulder' = <<avg>>
            /\ lastSample' = <<avg>>
            /\ lastFrame' = "pose"
       ELSE /\ prevShoulder' = PrevShoulderOnPoseLoss(prevShoulder)
            /\ lastSample' = lastSample
            /\ lastFrame' = FrameLost(track)
            /\ UNCHANGED <<keyLog, keyUpTimers, lastJumpTime, jumpLog>>
    /\ UNCHANGED <<variant, hookVars, writeStatus, uiVars, logVars, now, roundVars,
                   nameVars, statsVars, boardVars, pushed, engineVars, roundNo>>

\* ------------------------------------------------------ round controller
\* onChange of the name field, rendered only on the START screen.
TypeName(text) ==
    /\ variant = "arcade"
    /\ gameState = "START"
    /\ inputName' = text
    /\ UNCHANGED <<variant, hookVars, writeStatus, uiVars, logVars, now, detectorVars,
                   roundVars, playerName, playerNameRef, storedName, statsVars, boardVars,
                   pushed, engineVars, roundNo>>

\* A name submit that leaves the round inactive.
NameSubmitResetInactive == [active |-> FALSE, jumpCount |-> 0, startedAt |-> now]

\* What handleNameSubmit writes to isGameActiveRef, jumpCountRef, roundStartRef.
NameSubmitReset == [active |-> TRUE, jumpCount |-> 0, startedAt |-> now]

\* handleNameSubmit: the form is rendered only on the START screen.
HandleNameSubmit ==
    /\ variant = "arcade"
    /\ gameState = "START"
    /\ IF Trim(inputName) # << >>
       THEN LET name == NormalizeName(inputName) IN
            /\ roundNo < MaxRounds
            /\ playerName' = name
            /\ playerNameRef' = name
            /\ storedName' = name
            /\ gameState' = "PLAYING"
            /\ isGameActive' = NameSubmitReset.active
            /\ jumpCount' = NameSubmitReset.jumpCount
            /\ roundStart' = NameSubmitReset.startedAt
            /\ roundNo' = roundNo + 1
       ELSE UNCHANGED <<playerName, playerNameRef, storedName, roundVars, roundNo>>
    /\ UNCHANGED <<variant, hookVars, writeStatus, uiVars, logVars, now, detectorVars,
                   inputName, statsVars, boardVars, pushed, engineVars>>

\* A summary card that is also shown while a round is played.
SummaryRenderedWhilePlaying == gameState # "START"

\* The summary card with RETRY and MAIN MENU is rendered in GAME_OVER only.
SummaryRendered == gameState = "GAME_OVER"

\* A retry that forgets to reset the jump counter.
RetryResetKeepsJumpCount == [active |-> TRUE, jumpCount |-> jumpCount, startedAt |-> now]

\* What handleRetry writes to isGameActiveRef, jumpCountRef, roundStartRef.
RetryReset == [active |-> TRUE, jumpCount |-> 0, startedAt |-> now]

\* Runner.instance_.restart() when the instance exists.
RequestRestart(ready, calls) == IF ready THEN calls + 1 ELSE calls

\* handleRetry, behind the RETRY button of the summary card.
HandleRetry ==
    /\ variant = "arcade"
    /\ SummaryRendered
    /\ roundNo < MaxRounds
    /\ gameState' = "PLAYING"
    /\ isGameActive' = RetryReset.active
    /\ jumpCount' = RetryReset.jumpCount
    /\ roundStart' = RetryReset.startedAt
    /\ restartCalls' = RequestRestart(runnerReady, restartCalls)
    /\ roundNo' = roundNo + 1
    /\ UNCHANGED <<variant, hookVars, writeStatus, uiVars, logVars, now, detectorVars,
                   nameVars, statsVars, boardVars, pushed, runnerReady, gameOverPatched,
                   checkRunners>>

\* A main menu that also starts the session stats over.
HandleMainMenuClearsStats ==
    /\ variant = "arcade"
    /\ SummaryRendered
    /\ gameState' = "START"
    /\ playerName' = << >>
    /\ playerNameRef' = << >>
    /\ isGameActive' = FALSE
    /\ storedName' = << >>
    /\ inputName' = << >>
    /\ sessionStats' = EmptyStats
    /\ storedStats' = EmptyStats
    /\ UNCHANGED <<variant, hookVars, writeStatus, uiVars, logVars, now, detectorVars,
                   jumpCount, roundStart, streak, storedStreak, lastGameScore, boardVars,
                   pushed, engineVars, roundNo>>

\* A main menu that leaves the name in localStorage.
HandleMainMenuKeepsStoredName ==
    /\ variant = "arcade"
    /\ SummaryRendered
    /\ gameState' = "START"
    /\ playerName' = << >>
    /\ playerNameRef' = << >>
    /\ isGameActive' = FALSE
    /\ inputName' = << >>
    /\ UNCHANGED <<variant, hookVars, writeStatus, uiVars, logVars, now, detectorVars,
                   jumpCount, roundStart, storedName, statsVars, boardVars, pushed,
                   engineVars, roundNo>>

\* handleMainMenu, behind the MAIN MENU button of the summary card.
HandleMainMenu ==
    /\ variant = "arcade"
    /\ SummaryRendered
    /\ gameState' = "START"
    /\ playerName' = << >>
    /\ playerNameRef' = << >>
    /\ isGameActive' = FALSE
    /\ storedName' = << >>
    /\ inputName' = << >>
    /\ UNCHANGED <<variant, hookVars, writeStatus, uiVars, logVars, now, detectorVars,
                   jumpCount, roundStart, statsVars, boardVars, pushed, engineVars,
                   roundNo>>

\* ------------------------------------------------------------ game over
\* A handler without the single-flight guard: every notification is accepted.
GameOverAlwaysAccepted(active) == TRUE

\* if (!isGameActiveRef.current) return;
GameOverAccepted(active) == active

\* An updater that assigns the round's score instead of adding it.
ApplyRoundAssignsScore(prev, score, jumps, roundTime) ==
    [totalJumps |-> prev.totalJumps + jumps,
     totalPlayTime |-> prev.totalPlayTime + roundTime,
     totalScore |-> score,
     roundsPlayed |-> prev.roundsPlayed + 1]

\* The setSessionStats updater.
ApplyRound(prev, score, jumps, roundTime) ==
    [totalJumps |-> prev.totalJumps + jumps,
     totalPlayTime |-> prev.totalPlayTime + roundTime,
     totalScore |-> prev.totalScore + score,
     roundsPlayed |-> prev.roundsPlayed + 1]

\* An updater that forgets to raise best on an improvement.
StreakFoldKeepsBest(prev, score) ==
    IF prev.lastScore = 0 \/ score > prev.lastScore
    THEN [current |-> prev.current + 1, best |-> prev.best, lastScore |-> score]
    ELSE [current |-> 0, best |-> prev.best, lastScore |-> score]

\* An updater that takes an equal score for an improvement.
StreakFoldNonStrict(prev, score) ==
    IF prev.lastScore = 0 \/ score >= prev.lastScore
    THEN [current |-> prev.current + 1,
          best |-> Max(prev.best, prev.current + 1),
          lastScore |-> score]
    ELSE [current |-> 0, best |-> prev.best, lastScore |-> score]

\* An updater that drops best together with current.
StreakFoldResetsBest(prev, score) ==
    IF prev.lastScore = 0 \/ score > prev.lastScore
    THEN [current |-> prev.current + 1,
          best |-> Max(prev.best, prev.current + 1),
          lastScore |-> score]
    ELSE [current |-> 0, best |-> 0, lastScore |-> score]

\* The setStreak updater.
StreakFold(prev, score) ==
    IF prev.lastScore = 0 \/ score > prev.lastScore
    THEN [current |-> prev.current + 1,
          best |-> Max(prev.best, prev.current + 1),
          lastScore |-> score]
    ELSE [current |-> 0, best |-> prev.best, lastScore |-> score]

\* The record handed to push(ref(database, 'leaderboard'), ...).
LeaderboardRecord(name, score, jumps, roundTime) ==
    [name |-> name, score |-> score, timestamp |-> now, jumps |-> jumps,
     time |-> RoundSeconds(roundTime), gameMode |-> "arcade"]

\* if (currentPlayer) push(...): the writes issued so far, with this one.
PushScore(name, score, jumps, roundTime) ==
    IF name # << >>
    THEN Append(pushed, [round |-> roundNo,
                         entry |-> LeaderboardRecord(name, score, jumps, roundTime)])
    ELSE pushed

\* push() returns at once with the write in flight: .then and .catch run
\* later, if ever.
PushStatus(name) ==
    IF name # << >> THEN Append(writeStatus, "pending") ELSE writeStatus

\* The history record of an accepted game-over.
RoundResult(score, jumps, roundTime) ==
    [round |-> roundNo, score |-> score, jumps |-> jumps, roundTime |-> roundTime]

\* handleGameOver of the arcade variant, with what the engine's score
\* display holds when it is read.
HandleGameOver(reading) ==
    IF ~GameOverAccepted(isGameActive)
    THEN UNCHANGED <<isGameActive, lastGameScore, pushed, writeStatus, sessionStats,
                     storedStats, streak, storedStreak, gameState, roundLog>>
    ELSE LET score == ReadScore(reading)
             roundTime == now - roundStart
             jumps == jumpCount
         IN  /\ isGameActive' = FALSE
             /\ lastGameScore' = <<score>>
             /\ pushed' = PushScore(playerNameRef, score, jumps, roundTime)
             /\ writeStatus' = PushStatus(playerNameRef)
             /\ sessionStats' = ApplyRound(sessionStats, score, jumps, roundTime)
             /\ storedStats' = sessionStats'
             /\ streak' = StreakFold(streak, score)
             /\ storedStreak' = streak'
             /\ gameState' = "GAME_OVER"
             /\ roundLog' = Append(roundLog, RoundResult(score, jumps, roundTime))

\* handleCrash, the onGameOver callback the patched engine hook calls:
\* play the game-over sound, then handleGameOver.
HandleCrash(reading) ==
    /\ variant = "arcade"
    /\ runnerReady
    /\ gameOverPatched
    /\ HandleGameOver(reading)
    /\ UNCHANGED <<variant, effectRuns, wrappers, uiVars, statsSince, now, detectorVars, jumpCount, roundStart, nameVars,
                   boardVars, engineVars, roundNo>>

\* --------------------------------------------------------------- engine
\* react-chrome-dino creates window.Runner.instance_.
RunnerInit ==
    /\ ~runnerReady
    /\ runnerReady' = TRUE
    /\ UNCHANGED <<variant, hookVars, writeStatus, uiVars, logVars, now, detectorVars,
                   roundVars, nameVars, statsVars, boardVars, pushed, gameOverPatched,
                   checkRunners, restartCalls, roundNo>>

\* The effect runs there may be.
PollerIds == 1..MaxEffectRuns

\* A poller that wraps the hook it finds, patched or not.
CheckRunnerAlwaysWraps(p) ==
    /\ variant = "arcade"
    /\ p \in checkRunners
    /\ IF runnerReady
       THEN /\ wrappers' = wrappers + 1
            /\ gameOverPatched' = TRUE
            /\ checkRunners' = checkRunners \ {p}
       ELSE UNCHANGED <<wrappers, gameOverPatched, checkRunners>>
    /\ UNCHANGED <<variant, effectRuns, hookCalls, hookTrace, writeStatus, uiVars, logVars,
                   now, detectorVars, roundVars, nameVars, statsVars, boardVars, pushed,
                   runnerReady, restartCalls, roundNo>>

\* A poller that never clears its interval.
CheckRunnerNeverClears(p) ==
    /\ variant = "arcade"
    /\ p \in checkRunners
    /\ IF runnerReady
       THEN /\ wrappers' = (IF gameOverPatched THEN wrappers ELSE wrappers + 1)
            /\ gameOverPatched' = TRUE
            /\ checkRunners' = checkRunners
       ELSE UNCHANGED <<wrappers, gameOverPatched, checkRunners>>
    /\ UNCHANGED <<variant, effectRuns, hookCalls, hookTrace, writeStatus, uiVars, logVars,
                   now, detectorVars, roundVars, nameVars, statsVars, boardVars, pushed,
                   runnerReady, restartCalls, roundNo>>

\* One run of the checkRunner interval callback of DinoGame's effect run p:
\* with the engine there, wrap gameOver unless it is patched, then clear
\* this interval.
CheckRunner(p) ==
    /\ variant = "arcade"
    /\ p \in checkRunners
    /\ IF runnerReady
       THEN /\ wrappers' = (IF gameOverPatched THEN wrappers ELSE wrappers + 1)
            /\ gameOverPatched' = TRUE
            /\ checkRunners' = checkRunners \ {p}
       ELSE UNCHANGED <<wrappers, gameOverPatched, checkRunners>>
    /\ UNCHANGED <<variant, effectRuns, hookCalls, hookTrace, writeStatus, uiVars, logVars,
                   now, detectorVars, roundVars, nameVars, statsVars, boardVars, pushed,
                   runnerReady, restartCalls, roundNo>>

\* The same callback in the basic variant.
CheckRunnerBasic(p) ==
    /\ variant = "basic"
    /\ p \in checkRunners
    /\ IF runnerReady
       THEN /\ wrappers' = (IF gameOverPatched THEN wrappers ELSE wrappers + 1)
            /\ gameOverPatched' = TRUE
            /\ checkRunners' = checkRunners \ {p}
       ELSE UNCHANGED <<wrappers, gameOverPatched, checkRunners>>
    /\ UNCHANGED <<variant, effectRuns, hookCalls, hookTrace, writeStatus, uiVars, logVars,
                   now, detectorVars, roundVars, nameVars, statsVars, boardVars, pushed,
                   runnerReady, restartCalls, roundNo>>

\* An effect re-run that leaves the interval of the run before it set.
DinoGameEffectRerunLeaks ==
    /\ variant = "arcade"
    /\ effectRuns < MaxEffectRuns
    /\ effectRuns' = effectRuns + 1
    /\ checkRunners' = checkRunners \cup {effectRuns'}
    /\ UNCHANGED <<variant, wrappers, hookCalls, hookTrace, writeStatus, uiVars, logVars,
                   now, detectorVars, roundVars, nameVars, statsVars, boardVars, pushed,
                   runnerReady, gameOverPatched, restartCalls, roundNo>>

\* App renders DinoGame with a new difficulty object, so DinoGame's effect
\* is torn down and run again: the cleanup clears the interval of the run
\* before, the new run sets its own.
DinoGameEffectRerun ==
    /\ variant = "arcade"
    /\ effectRuns < MaxEffectRuns
    /\ effectRuns' = effectRuns + 1
    /\ checkRunners' = (checkRunners \ {effectRuns}) \cup {effectRuns'}
    /\ UNCHANGED <<variant, wrappers, hookCalls, hookTrace, writeStatus, uiVars, logVars,
                   now, detectorVars, roundVars, nameVars, statsVars, boardVars, pushed,
                   runnerReady, gameOverPatched, restartCalls, roundNo>>

\* What one engine game-over runs with w wrappers around the original
\* gameOver: each wrapper calls its callback, then what it wraps.
RECURSIVE GameOverTrace(_)
GameOverTrace(w) ==
    IF w = 0 THEN <<"original">> ELSE <<"callback">> \o GameOverTrace(w - 1)

\* A wrapper that runs the original gameOver only for an accepted game-over.
PatchedGameOverSwallows(reading, track) ==
    /\ HandleCrash(reading)
    /\ IF track
       THEN /\ hookCalls < MaxHookCalls
            /\ hookCalls' = hookCalls + 1
            /\ hookTrace' = (IF isGameActive THEN GameOverTrace(wrappers)
                             ELSE <<"callback">>)
       ELSE UNCHANGED <<hookCalls, hookTrace>>

\* The function DinoGame puts in place of Runner.instance_.gameOver, called
\* by the engine at a collision: the onGameOver callback, then the original.
PatchedGameOver(reading, track) ==
    /\ HandleCrash(reading)
    /\ IF track
       THEN /\ hookCalls < MaxHookCalls
            /\ hookCalls' = hookCalls + 1
            /\ hookTrace' = GameOverTrace(wrappers)
       ELSE UNCHANGED <<hookCalls, hookTrace>>

\* The wrapper of the basic variant: the game-over sound, then the original.
PatchedGameOverBasic ==
    /\ variant = "basic"
    /\ runnerReady
    /\ gameOverPatched
    /\ hookCalls < MaxHookCalls
    /\ hookCalls' = hookCalls + 1
    /\ hookTrace' = GameOverTrace(wrappers)
    /\ UNCHANGED <<variant, effectRuns, wrappers, writeStatus, uiVars, logVars, now,
                   detectorVars, roundVars, nameVars, statsVars, boardVars, pushed,
                   engineVars, roundNo>>

\* An engine game-over before any poller has seen the engine: the original
\* gameOver alone.
OriginalGameOver ==
    /\ runnerReady
    /\ ~gameOverPatched
    /\ hookCalls < MaxHookCalls
    /\ hookCalls' = hookCalls + 1
    /\ hookTrace' = GameOverTrace(wrappers)
    /\ UNCHANGED <<variant, effectRuns, wrappers, writeStatus, uiVars, logVars, now,
                   detectorVars, roundVars, nameVars, statsVars, boardVars, pushed,
                   engineVars, roundNo>>

\* The .then callback of push(): the write reached the store; it logs.
PushSaved(i) ==
    /\ i \in DOMAIN writeStatus
    /\ writeStatus[i] = "pending"
    /\ writeStatus' = [writeStatus EXCEPT ![i] = "saved"]
    /\ UNCHANGED <<variant, hookVars, uiVars, logVars, now, detectorVars, roundVars,
                   nameVars, statsVars, boardVars, pushed, engineVars, roundNo>>

\* A .catch callback that takes the shown score back.
PushFailedClearsScore(i) ==
    /\ i \in DOMAIN writeStatus
    /\ writeStatus[i] = "pending"
    /\ writeStatus' = [writeStatus EXCEPT ![i] = "failed"]
    /\ lastGameScore' = << >>
    /\ UNCHANGED <<variant, hookVars, uiVars, logVars, now, detectorVars, roundVars,
                   nameVars, sessionStats, storedStats, streak, storedStreak, boardVars,
                   pushed, engineVars, roundNo>>

\* The .catch callback of push(): the write failed; it logs.
PushFailed(i) ==
    /\ i \in DOMAIN writeStatus
    /\ writeStatus[i] = "pending"
    /\ writeStatus' = [writeStatus EXCEPT ![i] = "failed"]
    /\ UNCHANGED <<variant, hookVars, uiVars, logVars, now, detectorVars, roundVars,
                   nameVars, statsVars, boardVars, pushed, engineVars, roundNo>>

\* ---------------------------------------------------- leaderboard, stats
\* A listener that shows the delivered entries as they come.
OnValueUnsorted(data) ==
    /\ variant = "arcade"
    /\ leaderboard' = data
    /\ UNCHANGED <<variant, hookVars, writeStatus, uiVars, logVars, now, detectorVars,
                   roundVars, nameVars, statsVars, storedLeaderboard, pushed, engineVars,
                   roundNo>>

\* The onValue listener of the top-10 query.
OnValue(data) ==
    /\ variant = "arcade"
    /\ leaderboard' = (IF data # << >> THEN SortByScoreDesc(data) ELSE << >>)
    /\ UNCHANGED <<variant, hookVars, writeStatus, uiVars, logVars, now, detectorVars,
                   roundVars, nameVars, statsVars, storedLeaderboard, pushed, engineVars,
                   roundNo>>

\* A clear that empties the view and leaves the stored list.
ResetLeaderboardMemoryOnly ==
    /\ variant \in ScoredVariants
    /\ leaderboard # << >>
    /\ leaderboard' = << >>
    /\ UNCHANGED <<variant, hookVars, writeStatus, uiVars, logVars, now, detectorVars,
                   roundVars, nameVars, statsVars, storedLeaderboard, pushed, engineVars,
                   roundNo>>

\* resetLeaderboard: the Clear button is rendered when the list is not empty.
ResetLeaderboard ==
    /\ variant \in ScoredVariants
    /\ leaderboard # << >>
    /\ storedLeaderboard' = << >>
    /\ leaderboard' = << >>
    /\ UNCHANGED <<variant, hookVars, writeStatus, uiVars, logVars, now, detectorVars,
                   roundVars, nameVars, statsVars, pushed, engineVars, roundNo>>

\* The history of resetStats: the controller state is kept only where track
\* says so.
ResetPoint(track) ==
    [rounds |-> Len(roundLog), state |-> IF track THEN gameState ELSE "none"]

\* A reset of the stats that leaves the streak.
ResetStatsKeepsStreak(track) ==
    /\ variant \in ScoredVariants
    /\ storedStats' = EmptyStats
    /\ sessionStats' = EmptyStats
    /\ statsSince' = ResetPoint(track)
    /\ UNCHANGED <<variant, hookVars, writeStatus, uiVars, roundLog, now, detectorVars,
                   roundVars, nameVars, streak, storedStreak, lastGameScore, boardVars,
                   pushed, engineVars, roundNo>>

\* A reset that also zeroes the jump counter of the round in progress.
ResetStatsZeroesJumpCount(track) ==
    /\ variant \in ScoredVariants
    /\ storedStats' = EmptyStats
    /\ sessionStats' = EmptyStats
    /\ storedStreak' = EmptyStreak
    /\ streak' = EmptyStreak
    /\ statsSince' = ResetPoint(track)
    /\ jumpCount' = 0
    /\ UNCHANGED <<variant, hookVars, writeStatus, uiVars, roundLog, now, detectorVars,
                   gameState, isGameActive, roundStart, nameVars, lastGameScore,
                   boardVars, pushed, engineVars, roundNo>>

\* resetStats: the Reset button is always rendered.
ResetStats(track) ==
    /\ variant \in ScoredVariants
    /\ storedStats' = EmptyStats
    /\ sessionStats' = EmptyStats
    /\ storedStreak' = EmptyStreak
    /\ streak' = EmptyStreak
    /\ statsSince' = ResetPoint(track)
    /\ UNCHANGED <<variant, hookVars, writeStatus, uiVars, roundLog, now, detectorVars,
                   roundVars, nameVars, lastGameScore, boardVars, pushed, engineVars,
                   roundNo>>

\* toggleTheme
ToggleTheme ==
    /\ variant \in ScoredVariants
    /\ theme' = (IF theme = "dark" THEN "light" ELSE "dark")
    /\ storedTheme' = theme'
    /\ UNCHANGED <<variant, hookVars, writeStatus, newHighlight, highlightTimers, logVars,
                   now, detectorVars, roundVars, nameVars, statsVars, boardVars, pushed,
                   engineVars, roundNo>>

\* ---------------------------------------------------------- local variant
\* The local variant (src/unnamed/part_000 lines 602-1059): no player name,
\* no controller state and no active flag; the leaderboard is a local top 5.
LocalEntry(score, date, jumps, time) ==
    [score |-> score, date |-> date, jumps |-> jumps, time |-> time]

\* What a previous session may have left in localStorage dino_leaderboard:
\* nothing, or a full list as this code writes it (sorted, five entries).
StoredLeaderboards ==
    { << >>,
      <<LocalEntry(9, 1, 3, 9), LocalEntry(5, 2, 1, 5), LocalEntry(5, 3, 2, 4),
        LocalEntry(0, 4, 0, 1), LocalEntry(0, 5, 0, 2)>> }

InitLocal ==
    /\ variant = "local"
    /\ now = Epoch
    /\ prevShoulder = InitialPrevShoulder
    /\ lastJumpTime = InitialLastJumpTime
    /\ keyUpTimers = << >>
    /\ keyLog = << >>
    /\ jumpLog = << >>
    /\ lastSample = << >>
    /\ lastFrame = "none"
    /\ gameState = "none"
    /\ isGameActive = FALSE
    /\ jumpCount = 0
    /\ roundStart = Epoch
    /\ storedName = << >>
    /\ inputName = << >>
    /\ playerName = << >>
    /\ playerNameRef = << >>
    /\ sessionStats = EmptyStats
    /\ storedStats = EmptyStats
    /\ streak = EmptyStreak
    /\ storedStreak = EmptyStreak
    /\ lastGameScore = << >>
    /\ storedLeaderboard \in StoredLeaderboards
    /\ leaderboard = storedLeaderboard
    /\ pushed = << >>
    /\ runnerReady = FALSE
    /\ gameOverPatched = FALSE
    /\ checkRunners = {1}
    /\ effectRuns = 1
    /\ wrappers = 0
    /\ hookCalls = 0
    /\ hookTrace = << >>
    /\ writeStatus = << >>
    /\ restartCalls = 0
    /\ roundNo = 1
    /\ theme = DefaultTheme
    /\ storedTheme = DefaultTheme
    /\ newHighlight = -1
    /\ highlightTimers = << >>
    /\ roundLog = << >>
    /\ statsSince = [rounds |-> 0, state |-> "none"]

\* prevShoulderRef.current !== null
DetectorArmedLocal(prev) ==
    prev # << >>

\* pose.onResults of the local variant: no round guard, jumps are counted.
OnResultsLocal(frame) ==
    /\ variant = "local"
    /\ IF frame.landmarks
       THEN LET avg == AvgShoulderY(frame) IN
            /\ IF EmitsJump(DetectorArmedLocal(prevShoulder), avg)
               THEN /\ SimulateSpacebar
                    /\ lastJumpTime' = now
                    /\ jumpCount' = jumpCount + 1
                    /\ jumpLog' = Append(jumpLog, JumpRecord(avg))
               ELSE UNCHANGED <<keyLog, keyUpTimers, lastJumpTime, jumpCount, jumpLog>>
            /\ prevShoulder' = <<avg>>
            /\ lastSample' = <<avg>>
            /\ lastFrame' = "pose"
       ELSE /\ prevShoulder' = PrevShoulderOnPoseLoss(prevShoulder)
            /\ lastSample' = lastSample
            /\ lastFrame' = FrameLost(FALSE)
            /\ UNCHANGED <<keyLog, keyUpTimers, lastJumpTime, jumpCount, jumpLog>>
    /\ UNCHANGED <<variant, hookVars, writeStatus, uiVars, logVars, now, gameState,
                   isGameActive, roundStart, nameVars, statsVars, boardVars, pushed,
                   engineVars, roundNo>>

\* [...prev, entry].sort((a, b) => b.score - a.score).slice(0, 5)
UpdatedLeaderboard(prev, entry) ==
    Slice(SortByScoreDesc(Append(prev, entry)), LocalTopN)

\* updated.findIndex((e) => e.date === entry.date && e.score === entry.score):
\* the 0-based index of the first match, -1 without one.
FindIndex(list, entry) ==
    LET matches == {i \in DOMAIN list :
                       list[i].date = entry.date /\ list[i].score = entry.score}
    IN  IF matches = {} THEN -1
        ELSE (CHOOSE i \in matches : \A j \in matches : i <= j) - 1

\* A handler that drops a notification arriving in the instant of the one
\* before it.
HandleGameOverLocalDropsRepeat(reading) ==
    /\ variant = "local"
    /\ runnerReady
    /\ gameOverPatched
    /\ roundNo <= MaxRounds
    /\ hookCalls < MaxHookCalls
    /\ hookCalls' = hookCalls + 1
    /\ IF roundLog # << >> /\ roundStart = now
       THEN UNCHANGED <<lastGameScore, newHighlight, highlightTimers, storedLeaderboard,
                        leaderboard, sessionStats, storedStats, streak, storedStreak,
                        roundLog, jumpCount, roundStart, roundNo>>
       ELSE LET score == ReadScore(reading)
                roundTime == now - roundStart
                jumps == jumpCount
                entry == LocalEntry(score, now, jumps, RoundSeconds(roundTime))
                updated == UpdatedLeaderboard(leaderboard, entry)
            IN  /\ lastGameScore' = <<score>>
                /\ newHighlight' = FindIndex(updated, entry)
                /\ highlightTimers' = Append(highlightTimers, now + HighlightDelay)
                /\ storedLeaderboard' = updated
                /\ leaderboard' = updated
                /\ sessionStats' = ApplyRound(sessionStats, score, jumps, roundTime)
                /\ storedStats' = sessionStats'
                /\ streak' = StreakFold(streak, score)
                /\ storedStreak' = streak'
                /\ roundLog' = Append(roundLog, RoundResult(score, jumps, roundTime))
                /\ jumpCount' = 0
                /\ roundStart' = now
                /\ roundNo' = roundNo + 1
    /\ UNCHANGED <<variant, effectRuns, wrappers, hookTrace, writeStatus, theme,
                   storedTheme, statsSince, now, detectorVars, gameState, isGameActive,
                   nameVars, pushed, engineVars>>

\* handleGameOver of the local variant, called by the patched engine hook
\* on every engine game-over; the game-overs are counted.
HandleGameOverLocal(reading) ==
    /\ variant = "local"
    /\ runnerReady
    /\ gameOverPatched
    /\ roundNo <= MaxRounds
    /\ LET score == ReadScore(reading)
           roundTime == now - roundStart
           jumps == jumpCount
           entry == LocalEntry(score, now, jumps, RoundSeconds(roundTime))
           updated == UpdatedLeaderboard(leaderboard, entry)
       IN  /\ lastGameScore' = <<score>>
           /\ newHighlight' = FindIndex(updated, entry)
           /\ highlightTimers' = Append(highlightTimers, now + HighlightDelay)
           /\ storedLeaderboard' = updated
           /\ leaderboard' = updated
           /\ sessionStats' = ApplyRound(sessionStats, score, jumps, roundTime)
           /\ storedStats' = sessionStats'
           /\ streak' = StreakFold(streak, score)
           /\ storedStreak' = streak'
           /\ roundLog' = Append(roundLog, RoundResult(score, jumps, roundTime))
    /\ jumpCount' = 0
    /\ roundStart' = now
    /\ roundNo' = roundNo + 1
    /\ hookCalls' = hookCalls + 1
    /\ UNCHANGED <<variant, effectRuns, wrappers, hookTrace, writeStatus, theme,
                   storedTheme, statsSince, now, detectorVars, gameState, isGameActive,
                   nameVars, pushed, engineVars>>

\* The setTimeout callback of the highlight: setNewHighlight(-1).
HighlightTimeout ==
    /\ highlightTimers # << >>
    /\ Head(highlightTimers) <= now
    /\ newHighlight' = -1
    /\ highlightTimers' = Tail(highlightTimers)
    /\ UNCHANGED <<variant, hookVars, writeStatus, theme, storedTheme, logVars, now,
                   detectorVars, roundVars, nameVars, statsVars, boardVars, pushed,
                   engineVars, roundNo>>

\* One run of the checkRunner interval callback of the local variant.
CheckRunnerLocal(p) ==
    /\ variant = "local"
    /\ p \in checkRunners
    /\ IF runnerReady
       THEN /\ wrappers' = (IF gameOverPatched THEN wrappers ELSE wrappers + 1)
            /\ gameOverPatched' = TRUE
            /\ checkRunners' = checkRunners \ {p}
       ELSE UNCHANGED <<wrappers, gameOverPatched, checkRunners>>
    /\ UNCHANGED <<variant, effectRuns, hookCalls, hookTrace, writeStatus, uiVars, logVars, now, detectorVars, roundVars, nameVars,
                   statsVars, boardVars, pushed, runnerReady, restartCalls, roundNo>>

\* ------------------------------------------------------------------ Next
Next ==
    \/ \E t \in Instants \cup {keyUpTimers[i] : i \in DOMAIN keyUpTimers} : Tick(t)
    \/ KeyUpTimeout
    \/ \E frame \in Frames : OnResultsArcade(frame, FALSE)
    \/ \E frame \in Frames : OnResultsBasic(frame, FALSE)
    \/ \E text \in InputNames : TypeName(text)
    \/ HandleNameSubmit
    \/ HandleRetry
    \/ HandleMainMenu
    \/ \E reading \in EngineReadings : PatchedGameOver(reading, FALSE)
    \/ RunnerInit
    \/ \E p \in PollerIds : CheckRunner(p)
    \/ \E p \in PollerIds : CheckRunnerBasic(p)
    \/ \E data \in Snapshots : OnValue(data)
    \/ ResetLeaderboard
    \/ ResetStats(FALSE)
    \/ ToggleTheme

Spec == Init /\ [][Next]_vars

\* The same program with the history of pose loss kept.
NextPoseTracking ==
    \/ \E t \in Instants \cup {keyUpTimers[i] : i \in DOMAIN keyUpTimers} : Tick(t)
    \/ KeyUpTimeout
    \/ \E frame \in Frames : OnResultsArcade(frame, TRUE)
    \/ \E frame \in Frames : OnResultsBasic(frame, TRUE)
    \/ \E text \in InputNames : TypeName(text)
    \/ HandleNameSubmit
    \/ HandleRetry
    \/ HandleMainMenu
    \/ \E reading \in EngineReadings : PatchedGameOver(reading, FALSE)
    \/ RunnerInit
    \/ \E p \in PollerIds : CheckRunner(p)
    \/ \E p \in PollerIds : CheckRunnerBasic(p)
    \/ \E data \in Snapshots : OnValue(data)
    \/ ResetLeaderboard
    \/ ResetStats(FALSE)
    \/ ToggleTheme

\* Time does not stand still before a pending timer and the browser runs a
\* timer callback that is due.
TimerFairness == WF_vars(TickToKeyUp) /\ WF_vars(KeyUpTimeout)

SpecFair == Spec /\ TimerFairness

SpecPoseTracking == Init /\ [][NextPoseTracking]_vars

\* The same program with the controller state kept at every resetStats.
NextResetTracking ==
    \/ \E t \in Instants \cup {keyUpTimers[i] : i \in DOMAIN keyUpTimers} : Tick(t)
    \/ KeyUpTimeout
    \/ \E frame \in Frames : OnResultsArcade(frame, FALSE)
    \/ \E frame \in Frames : OnResultsBasic(frame, FALSE)
    \/ \E text \in InputNames : TypeName(text)
    \/ HandleNameSubmit
    \/ HandleRetry
    \/ HandleMainMenu
    \/ \E reading \in EngineReadings : PatchedGameOver(reading, FALSE)
    \/ RunnerInit
    \/ \E p \in PollerIds : CheckRunner(p)
    \/ \E p \in PollerIds : CheckRunnerBasic(p)
    \/ \E data \in Snapshots : OnValue(data)
    \/ ResetLeaderboard
    \/ ResetStats(TRUE)
    \/ ToggleTheme

SpecResetTracking == Init /\ [][NextResetTracking]_vars

\* The local variant.
NextLocal ==
    \/ \E t \in Instants \cup {keyUpTimers[i] : i \in DOMAIN keyUpTimers}
                        \cup {highlightTimers[i] : i \in DOMAIN highlightTimers} : Tick(t)
    \/ KeyUpTimeout
    \/ HighlightTimeout
    \/ \E frame \in Frames : OnResultsLocal(frame)
    \/ \E reading \in EngineReadings : HandleGameOverLocal(reading)
    \/ RunnerInit
    \/ \E p \in PollerIds : CheckRunnerLocal(p)
    \/ ResetLeaderboard
    \/ ResetStats(FALSE)
    \/ ToggleTheme

SpecLocal == InitLocal /\ [][NextLocal]_vars

\* The arcade and basic variants around the engine hook and the shared
\* store: DinoGame's effect runs again, every engine game-over is tracked and
\* the writes to the store come back.  The camera, the clock and the theme
\* and reset buttons, which neither read nor write any of this, are left out.
NextEngineAndStore ==
    \/ \E text \in InputNames : TypeName(text)
    \/ HandleNameSubmit
    \/ HandleRetry
    \/ HandleMainMenu
    \/ \E reading \in EngineReadings : PatchedGameOver(reading, TRUE)
    \/ PatchedGameOverBasic
    \/ OriginalGameOver
    \/ RunnerInit
    \/ \E p \in PollerIds : CheckRunner(p)
    \/ \E p \in PollerIds : CheckRunnerBasic(p)
    \/ DinoGameEffectRerun
    \/ \E i \in 1..MaxRounds : PushSaved(i)
    \/ \E i \in 1..MaxRounds : PushFailed(i)
    \/ \E data \in Snapshots : OnValue(data)
    \/ ResetLeaderboard

SpecEngineAndStore == Init /\ [][NextEngineAndStore]_vars

\* setInterval keeps calling a poller every 50 ms until its interval is
\* cleared.
PollerFairness ==
    \A p \in PollerIds : WF_vars(CheckRunner(p)) /\ WF_vars(CheckRunnerBasic(p))

SpecEngineAndStoreFair == SpecEngineAndStore /\ PollerFairness

\* ===================================================================
\* Properties
\* ===================================================================

\* The push() calls issued for round r.
PushesOfRound(r) == {i \in DOMAIN pushed : pushed[i].round = r}

\* The JumpEvents emitted in round r.
JumpsOfRound(r) == {i \in DOMAIN jumpLog : jumpLog[i].round = r}

\* Every started round but a still active one has been scored by exactly one
\* accepted notification; an active round by none yet.
C1_OnePushPerRound ==
    variant = "arcade" =>
        \A r \in 1..roundNo :
            Cardinality(PushesOfRound(r)) = (IF r < roundNo \/ ~isGameActive THEN 1 ELSE 0)

\* A notification that finds the round active scores it once; any other
\* notification changes nothing at all.
C1_NotificationStep ==
    \A reading \in EngineReadings :
        HandleCrash(reading) =>
            IF isGameActive
            THEN /\ sessionStats'.roundsPlayed = sessionStats.roundsPlayed + 1
                 /\ streak' = StreakFold(streak, ReadScore(reading))
                 /\ Len(pushed') = Len(pushed) + 1
                 /\ ~isGameActive'
            ELSE UNCHANGED vars

\* C1: exactly-once scoring. Between one round start and the next, only the
\* first game-over notification that finds the round active has an effect
\* (roundsPlayed + 1, one streak fold, one leaderboard submission); every
\* later notification for the same round changes nothing.
C1_ExactlyOnceScoring == []C1_OnePushPerRound /\ [][C1_NotificationStep]_vars

\* Two rounds have been played and scored once each; the engine hook is
\* installed, so further notifications for the ended round can arrive.
C1_Witness ==
    /\ roundNo = 2
    /\ gameState = "GAME_OVER"
    /\ Len(pushed) = 2
    /\ sessionStats.roundsPlayed = 2
    /\ streak.lastScore = 5
    /\ runnerReady /\ gameOverPatched

\* Before the first frame with landmarks nothing has been emitted.
C2_NothingBeforeFirstSample ==
    lastFrame = "none" =>
        /\ jumpLog = << >>
        /\ keyLog = << >>
        /\ keyUpTimers = << >>
        /\ jumpCount = 0
        /\ lastJumpTime = 0

\* The first frame with landmarks stores its average and emits nothing.
C2_FirstSampleStep ==
    (lastFrame = "none" /\ lastFrame' = "pose") =>
        /\ \E frame \in Frames : frame.landmarks /\ prevShoulder' = <<AvgShoulderY(frame)>>
        /\ UNCHANGED <<jumpLog, keyLog, keyUpTimers, jumpCount, lastJumpTime>>

\* C2: the first frame that carries landmarks only seeds previousY and emits
\* no JumpEvent (no key input, no jumpCount change), whatever its y value; a
\* JumpEvent is emitted on the second sample at the earliest.
C2_FirstSampleOnlySeeds == []C2_NothingBeforeFirstSample /\ [][C2_FirstSampleStep]_vars

\* A round is active, one sample at the top of the range has arrived, and
\* nothing has been emitted.
C2_Witness ==
    /\ variant = "arcade"
    /\ isGameActive
    /\ lastFrame = "pose"
    /\ prevShoulder = <<5000>>
    /\ jumpLog = << >>
    /\ keyLog = << >>

\* C3: refractory period. Any two JumpEvents are more than 500 ms apart, and
\* the period is measured from the last emitted event: lastJumpTime is the
\* time of the last JumpEvent (0 before the first), not of the last sample.
C3_RefractoryPeriod ==
    /\ \A i, j \in DOMAIN jumpLog : i < j => jumpLog[j].t - jumpLog[i].t > 500
    /\ lastJumpTime = (IF jumpLog = << >> THEN 0 ELSE jumpLog[Len(jumpLog)].t)

\* Two JumpEvents 501 ms apart, and a sample seen after the second one.
C3_Witness ==
    /\ Len(jumpLog) = 2
    /\ jumpLog[2].t - jumpLog[1].t = 501
    /\ prevShoulder = <<5400>>

\* On a sample that follows a previous sample (in the arcade variant: while
\* the round is active) a JumpEvent is emitted exactly when the rise is
\* above 0.04 and more than 500 ms have passed since the last JumpEvent.
C4_SampleStep ==
    \A frame \in Frames :
        ( /\ frame.landmarks
          /\ prevShoulder # << >>
          /\ variant = "arcade" => isGameActive
          /\ \E track \in BOOLEAN :
                OnResultsArcade(frame, track) \/ OnResultsBasic(frame, track) )
        => LET diff == prevShoulder[1] - AvgShoulderY(frame)
               emitted == Len(jumpLog') = Len(jumpLog) + 1
           IN  /\ emitted <=> (diff > 400 /\ now - lastJumpTime > 500)
               /\ ~emitted => jumpLog' = jumpLog /\ keyLog' = keyLog

\* C4: a JumpEvent is emitted iff previousY - currentY > 0.04 and
\* now - lastJumpTime > 500 ms, both strict: a rise of exactly 0.04 or an
\* elapsed time of exactly 500 ms does not emit, 0.0401 after 501 ms does.
C4_EmitIffStrict ==
    /\ [][C4_SampleStep]_vars
    /\ [](\A i \in DOMAIN jumpLog : jumpLog[i].diff > 400 /\ jumpLog[i].elapsed > 500)

\* A JumpEvent emitted on a rise of 0.0401, 501 ms after the previous one.
C4_Witness ==
    /\ Len(jumpLog) = 2
    /\ jumpLog[2].diff = 401
    /\ jumpLog[2].elapsed = 501

\* C5: pose loss resets the detector, so the first frame with landmarks
\* after one or more frames without landmarks never emits a JumpEvent.
C5_NoJumpAfterPoseLoss == [][lastFrame = "lost" => jumpLog' = jumpLog]_vars

\* The key-down and key-up events dispatched so far.
KeyDowns == SelectSeq(keyLog, LAMBDA e : e.kind = "keydown")

KeyUps == SelectSeq(keyLog, LAMBDA e : e.kind = "keyup")

\* Every JumpEvent dispatched one key-down at once; every key-down has its
\* key-up 100 ms later, dispatched or still scheduled and not overdue.
C6_TapsMatch ==
    /\ Len(KeyDowns) = Len(jumpLog)
    /\ \A i \in DOMAIN jumpLog : KeyDowns[i].t = jumpLog[i].t
    /\ Len(KeyDowns) = Len(KeyUps) + Len(keyUpTimers)
    /\ \A i \in DOMAIN KeyUps : KeyUps[i].t = KeyDowns[i].t + 100
    /\ \A k \in DOMAIN keyUpTimers :
          /\ keyUpTimers[k] = KeyDowns[Len(KeyUps) + k].t + 100
          /\ now <= keyUpTimers[k]

\* A scheduled key-up leaves the timer list only by being dispatched; no
\* round end, round start or menu step cancels it.
C6_NeverCancelled ==
    \/ keyUpTimers' = keyUpTimers /\ keyLog' = keyLog
    \/ /\ keyUpTimers' = Append(keyUpTimers, now + 100)
       /\ keyLog' = Append(keyLog, [kind |-> "keydown", t |-> now])
    \/ /\ keyUpTimers # << >>
       /\ keyUpTimers' = Tail(keyUpTimers)
       /\ keyLog' = Append(keyLog, [kind |-> "keyup", t |-> now])

\* C6: every JumpEvent handed to simulateSpacebar issues exactly one space
\* key-down at once and exactly one matching key-up 100 ms later; the
\* scheduled key-up is never cancelled, also when the round ends or a new
\* round starts within those 100 ms.
C6_KeyTap == []C6_TapsMatch /\ [][C6_NeverCancelled]_vars

\* A jump of round 1 at page-load time, the round ended and round 2 started
\* in the same instant, and the key-up was dispatched 100 ms later.
C6_Witness ==
    /\ keyLog = <<[kind |-> "keydown", t |-> Epoch], [kind |-> "keyup", t |-> Epoch + 100]>>
    /\ Len(jumpLog) = 1 /\ jumpLog[1].round = 1
    /\ Len(pushed) = 1 /\ pushed[1].entry.timestamp = Epoch
    /\ roundNo = 2
    /\ roundStart = Epoch

\* What every round start does, and what retry does in addition.
C7_RoundStartStep ==
    /\ (HandleNameSubmit /\ Trim(inputName) # << >>) => gameState' = "PLAYING"
    /\ HandleRetry => gameState' = "PLAYING"
    /\ (gameState # "PLAYING" /\ gameState' = "PLAYING") =>
          /\ isGameActive' /\ jumpCount' = 0 /\ roundStart' = now
          /\ restartCalls' = (IF gameState = "GAME_OVER" THEN restartCalls + 1 ELSE restartCalls)
          /\ gameState = "START" => Trim(inputName) # << >>
          /\ UNCHANGED <<sessionStats, storedStats, streak, storedStreak, leaderboard,
                         storedLeaderboard, pushed>>

\* C7: after START -> PLAYING (name submit with a non-blank name) and after
\* GAME_OVER -> PLAYING (retry) RoundState is active = true, jumpCount = 0,
\* startedAt = now; retry additionally requests an engine restart; neither
\* changes SessionStats, Streak or the leaderboard.
C7_RoundStart == [][C7_RoundStartStep]_vars

\* Round 1 had a jump; a retry 501 ms after page load started round 2 with
\* the counter back at 0 and one engine restart requested.
C7_Witness ==
    /\ roundNo = 2
    /\ gameState = "PLAYING"
    /\ Cardinality(JumpsOfRound(1)) = 1
    /\ jumpCount = 0
    /\ roundStart = Epoch + 501
    /\ restartCalls = 1
    /\ sessionStats.roundsPlayed = 1

\* The jumps reported for a round are the JumpEvents of that round, and the
\* counter holds the JumpEvents of the latest round.
C8_ReportedJumps ==
    variant = "arcade" =>
        /\ \A i \in DOMAIN pushed :
              pushed[i].entry.jumps = Cardinality(JumpsOfRound(pushed[i].round))
        /\ jumpCount = (IF roundNo = 0 THEN 0 ELSE Cardinality(JumpsOfRound(roundNo)))
        /\ JumpsOfRound(0) = {}

\* While no round is active no step emits a JumpEvent, dispatches a key-down
\* or moves lastJumpTime, and the counter changes only by a round start.
C8_FrozenStep ==
    /\ (variant = "arcade" /\ ~isGameActive) =>
          /\ jumpLog' = jumpLog
          /\ lastJumpTime' = lastJumpTime
          /\ Len(KeyDowns') = Len(KeyDowns)
          /\ Len(keyUpTimers') <= Len(keyUpTimers)
          /\ jumpCount' = jumpCount \/ (isGameActive' /\ jumpCount' = 0)
    /\ (variant = "arcade" /\ isGameActive /\ ~isGameActive') =>
          /\ jumpCount' = jumpCount
          /\ sessionStats'.totalJumps = sessionStats.totalJumps + jumpCount

\* C8: the jumps value reported for a round is the number of JumpEvents
\* detected between the round's start and its accepted game-over; no sample
\* processed while active is false changes jumpCount, issues key input or
\* updates lastJumpTime, and jumpCount stays frozen until the next start.
C8_JumpsPerRound == []C8_ReportedJumps /\ [][C8_FrozenStep]_vars

\* Two rounds were reported with one jump each.
C8_Witness ==
    /\ Len(pushed) = 2
    /\ pushed[1].entry.jumps = 1
    /\ pushed[2].entry.jumps = 1
    /\ sessionStats.totalJumps = 2
    /\ gameState = "GAME_OVER"

ControllerEdges ==
    { <<"START", "PLAYING">>, <<"PLAYING", "GAME_OVER">>,
      <<"GAME_OVER", "PLAYING">>, <<"GAME_OVER", "START">> }

\* The controller state moves only along the four edges, each by its own
\* trigger, and a notification outside PLAYING changes nothing.
C9_ControllerStep ==
    /\ gameState' # gameState => <<gameState, gameState'>> \in ControllerEdges
    /\ (gameState = "START" /\ gameState' = "PLAYING") => HandleNameSubmit
    /\ (gameState = "PLAYING" /\ gameState' = "GAME_OVER") =>
          \E reading \in EngineReadings : HandleCrash(reading)
    /\ (gameState = "GAME_OVER" /\ gameState' = "PLAYING") => HandleRetry
    /\ (gameState = "GAME_OVER" /\ gameState' = "START") => HandleMainMenu
    /\ \A reading \in EngineReadings :
          (HandleCrash(reading) /\ gameState # "PLAYING") => UNCHANGED vars

\* C9: the controller state changes only along START -> PLAYING (name
\* submit), PLAYING -> GAME_OVER (accepted notification), GAME_OVER ->
\* PLAYING (retry) and GAME_OVER -> START (main menu); there is no START ->
\* GAME_OVER and no PLAYING -> START step, and a notification arriving in
\* START or GAME_OVER changes no state.
C9_ControllerTransitions == [][C9_ControllerStep]_vars

\* All four edges taken: two rounds, the second by retry, then main menu.
C9_Witness ==
    /\ gameState = "START"
    /\ roundNo = 2
    /\ restartCalls = 1
    /\ Len(pushed) = 2
    /\ runnerReady /\ gameOverPatched

\* What the main menu step does and leaves alone.
C10_MainMenuStep ==
    /\ HandleMainMenu => gameState' = "START"
    /\ (gameState = "GAME_OVER" /\ gameState' = "START") =>
          /\ playerName' = << >>
          /\ playerNameRef' = << >>
          /\ storedName' = << >>
          /\ ~isGameActive'
          /\ UNCHANGED <<sessionStats, storedStats, streak, storedStreak, leaderboard,
                         storedLeaderboard>>

\* C10: main menu (GAME_OVER -> START) clears the player identity in memory
\* and in persisted storage and sets active = false, and leaves SessionStats,
\* Streak and the leaderboard view (in memory and persisted) unchanged.
C10_MainMenu == [][C10_MainMenuStep]_vars

\* Back on the start screen after a scored round: the name is gone, the
\* stats, the streak and a non-empty leaderboard view are still there.
C10_Witness ==
    /\ gameState = "START"
    /\ roundNo = 1
    /\ playerName = << >> /\ playerNameRef = << >> /\ storedName = << >>
    /\ sessionStats.roundsPlayed = 1
    /\ sessionStats.totalScore = 5
    /\ streak.best = 1
    /\ leaderboard # << >>

\* The readings from which no score can be read: the engine instance or its
\* digits are missing, or the digits do not start with a number.
C11_Unreadable(reading) ==
    \/ ~reading.ok
    \/ reading.digits = << >>
    \/ Head(reading.digits) \notin {"0", "1", "2", "3", "4", "5", "6", "7", "8", "9"}

\* An accepted game-over with an unreadable score records the round with
\* score 0 and completes the transition.
C11_UnreadableScoreStep ==
    \A reading \in EngineReadings :
        (C11_Unreadable(reading) /\ isGameActive /\ HandleCrash(reading)) =>
            /\ lastGameScore' = <<0>>
            /\ ~isGameActive'
            /\ gameState' = "GAME_OVER"
            /\ sessionStats'.roundsPlayed = sessionStats.roundsPlayed + 1
            /\ sessionStats'.totalJumps = sessionStats.totalJumps + jumpCount
            /\ sessionStats'.totalPlayTime = sessionStats.totalPlayTime + (now - roundStart)
            /\ sessionStats'.totalScore = sessionStats.totalScore
            /\ Len(pushed') = Len(pushed) + 1
            /\ pushed'[Len(pushed')].entry.score = 0

\* C11: when the engine score cannot be read or parsed at game over, the
\* round is recorded with score 0 and the transition still completes: active
\* becomes false, the state becomes GAME_OVER, roundsPlayed grows by 1 and
\* totalJumps and totalPlayTime receive the round's jumps and time.
C11_UnreadableScoreIsZero == [][C11_UnreadableScoreStep]_vars

\* A round with one jump that lasted 501 ms ended with an unreadable score.
C11_Witness ==
    /\ gameState = "GAME_OVER"
    /\ lastGameScore = <<0>>
    /\ sessionStats = [totalJumps |-> 1, totalPlayTime |-> 501, totalScore |-> 0,
                       roundsPlayed |-> 1]
    /\ Len(pushed) = 1
    /\ pushed[1].entry.score = 0

\* The sum of one field over the rounds recorded after the first n.
RECURSIVE C12_SumSince(_, _, _)
C12_SumSince(log, field, n) ==
    IF Len(log) <= n THEN 0
    ELSE C12_SumSince(SubSeq(log, 1, Len(log) - 1), field, n) + log[Len(log)][field]

\* The stats are the sums over the rounds accepted since the last reset.
C12_StatsAreSums ==
    variant = "arcade" =>
        /\ sessionStats.totalJumps = C12_SumSince(roundLog, "jumps", statsSince.rounds)
        /\ sessionStats.totalPlayTime = C12_SumSince(roundLog, "roundTime", statsSince.rounds)
        /\ sessionStats.totalScore = C12_SumSince(roundLog, "score", statsSince.rounds)
        /\ sessionStats.roundsPlayed = Len(roundLog) - statsSince.rounds
        /\ ApplyRound(EmptyStats, 150, 6, 42300) =
              [totalJumps |-> 6, totalPlayTime |-> 42300, totalScore |-> 150,
               roundsPlayed |-> 1]

\* An accepted game-over adds the round's jumps, time and score and counts
\* one round; the round's time is now - startedAt.
C12_ApplyRoundStep ==
    (isGameActive /\ \E reading \in EngineReadings : HandleCrash(reading)) =>
        /\ sessionStats' =
              [totalJumps |-> sessionStats.totalJumps + jumpCount,
               totalPlayTime |-> sessionStats.totalPlayTime + (now - roundStart),
               totalScore |-> sessionStats.totalScore + lastGameScore'[1],
               roundsPlayed |-> sessionStats.roundsPlayed + 1]
        /\ roundLog' = Append(roundLog,
              [round |-> roundNo, score |-> lastGameScore'[1], jumps |-> jumpCount,
               roundTime |-> now - roundStart])

\* C12: an accepted round {score, jumps, roundTime} turns SessionStats
\* {tj, tp, ts, rp} into {tj+jumps, tp+roundTime, ts+score, rp+1} with
\* roundTime = now - startedAt, e.g. {0,0,0,0} with {150, 6, 42.3} gives
\* {6, 42.3, 150, 1}; after any sequence of rounds since the last reset each
\* field is the sum of the per-round values and roundsPlayed is the number
\* of accepted game-overs.
C12_StatsAggregator == []C12_StatsAreSums /\ [][C12_ApplyRoundStep]_vars

\* Two rounds without a reset: scores 5 and 5, one jump each, 500 ms and 1 ms.
C12_Witness ==
    /\ Len(roundLog) = 2
    /\ statsSince.rounds = 0
    /\ sessionStats = [totalJumps |-> 2, totalPlayTime |-> 501, totalScore |-> 10,
                       roundsPlayed |-> 2]

\* No field of the stats, in memory or persisted, is smaller after the step.
C13_NonDecreasing ==
    /\ sessionStats'.totalJumps >= sessionStats.totalJumps
    /\ sessionStats'.totalPlayTime >= sessionStats.totalPlayTime
    /\ sessionStats'.totalScore >= sessionStats.totalScore
    /\ sessionStats'.roundsPlayed >= sessionStats.roundsPlayed
    /\ storedStats'.totalJumps >= storedStats.totalJumps
    /\ storedStats'.totalPlayTime >= storedStats.totalPlayTime
    /\ storedStats'.totalScore >= storedStats.totalScore
    /\ storedStats'.roundsPlayed >= storedStats.roundsPlayed

\* C13: every SessionStats field (totalJumps, totalPlayTime, totalScore,
\* roundsPlayed) is non-decreasing across every step of the system (jumps,
\* game-overs, retry, main menu, theme toggle, leaderboard clear) except the
\* user's explicit resetStats.
C13_StatsMonotone == [][ResetStats(FALSE) \/ C13_NonDecreasing]_vars

\* Stats of two rounds are still there after a main menu, a theme toggle and
\* a leaderboard clear.
C13_Witness ==
    /\ gameState = "START"
    /\ sessionStats.roundsPlayed = 2
    /\ sessionStats.totalScore = 5
    /\ statsSince.rounds = 0
    /\ theme = "light"
    /\ leaderboard = << >>
    /\ Len(roundLog) = 2

\* resetStats can be called in every controller state.
C14_ResetAvailable == variant = "arcade" => ENABLED ResetStats(TRUE)

\* A round that was in progress at the last reset and has ended since is
\* the one round of the stats, with all of its jumps and all of its time.
C14_RoundCountedFromZero ==
    (statsSince.state = "PLAYING" /\ Len(roundLog) = statsSince.rounds + 1) =>
        LET r == roundLog[Len(roundLog)]
        IN  sessionStats = [totalJumps |-> r.jumps, totalPlayTime |-> r.roundTime,
                            totalScore |-> r.score, roundsPlayed |-> 1]

\* A reset zeroes the stats in memory and in storage and touches neither
\* RoundState nor the controller state.
C14_ResetStep ==
    statsSince' # statsSince =>
        /\ sessionStats' = [totalJumps |-> 0, totalPlayTime |-> 0, totalScore |-> 0,
                            roundsPlayed |-> 0]
        /\ storedStats' = sessionStats'
        /\ UNCHANGED <<isGameActive, jumpCount, roundStart, gameState>>

\* C14: resetStats is available in every controller state (START, PLAYING,
\* GAME_OVER); it sets all four SessionStats fields to 0 in memory and in
\* persisted storage and does not change RoundState (active, jumpCount,
\* startedAt) or the controller state, so a round in progress still
\* completes and is then counted from zero.
C14_ResetStatsFrame ==
    /\ [](C14_ResetAvailable /\ C14_RoundCountedFromZero)
    /\ [][C14_ResetStep]_vars

\* The stats were reset while round 2 was played, after its jump; the round
\* then ended and is the only round counted, with that jump.
C14_Witness ==
    /\ statsSince = [rounds |-> 1, state |-> "PLAYING"]
    /\ gameState = "GAME_OVER"
    /\ Len(roundLog) = 2
    /\ sessionStats.roundsPlayed = 1
    /\ sessionStats.totalJumps = 1
    /\ Cardinality(JumpsOfRound(2)) = 1

\* C15: starting from the default {current: 0, best: 0, lastScore: 0},
\* Streak.best >= Streak.current holds in every reachable state, under any
\* sequence of round completions and resets (in memory and persisted).
C15_BestAtLeastCurrent ==
    /\ streak.best >= streak.current
    /\ storedStreak.best >= storedStreak.current

\* Two improvements in a row since the last reset.
C15_Witness ==
    /\ streak.current = 2
    /\ streak.best = 2
    /\ Len(roundLog) = 2

\* An accepted game-over with score s folds the streak by the rule.
C16_FoldStep ==
    (isGameActive /\ \E reading \in EngineReadings : HandleCrash(reading)) =>
        LET s == lastGameScore'[1]
            c == streak.current
            b == streak.best
            l == streak.lastScore
        IN  /\ streak'.lastScore = s
            /\ (l = 0 \/ s > l) =>
                  streak'.current = c + 1 /\ streak'.best = (IF b > c + 1 THEN b ELSE c + 1)
            /\ ~(l = 0 \/ s > l) => streak'.current = 0 /\ streak'.best = b

\* The two scenarios: {2,3,80} with 90 and with 50.
C16_Scenarios ==
    /\ StreakFold([current |-> 2, best |-> 3, lastScore |-> 80], 90) =
          [current |-> 3, best |-> 3, lastScore |-> 90]
    /\ StreakFold([current |-> 2, best |-> 3, lastScore |-> 80], 50) =
          [current |-> 0, best |-> 3, lastScore |-> 50]

\* C16: an accepted round with score s maps Streak {c, b, l} to
\* {c+1, max(b, c+1), s} when l = 0 or s > l, and to {0, b, s} otherwise;
\* lastScore becomes s in both cases; {2,3,80} with 90 gives {3,3,90} and
\* with 50 gives {0,3,50}.
C16_StreakEvaluator == []C16_Scenarios /\ [][C16_FoldStep]_vars

\* Two rounds with score 5: the second does not exceed the first, current
\* is back at 0 and best stays 1.
C16_Witness ==
    /\ streak = [current |-> 0, best |-> 1, lastScore |-> 5]
    /\ Len(roundLog) = 2
    /\ roundLog[1].score = 5 /\ roundLog[2].score = 5
    /\ statsSince.rounds = 0

\* C17: for every round after the first (since page load or the last
\* reset), if the round's score does not exceed the previous round's score,
\* Streak.current is 0 after the round; only the very first round is
\* unconditionally treated as an improvement.
C17_NoImprovementResetsCurrent ==
    [][ ( /\ isGameActive
          /\ \E reading \in EngineReadings : HandleCrash(reading)
          /\ Len(roundLog) > statsSince.rounds
          /\ lastGameScore'[1] <= roundLog[Len(roundLog)].score )
        => streak'.current = 0 ]_vars

\* C18: Streak.best never decreases across any sequence of round
\* completions, whatever the scores are (only resetStats lowers it).
C18_BestNonDecreasing ==
    [][ResetStats(FALSE) \/ (streak'.best >= streak.best /\ storedStreak'.best >= storedStreak.best)]_vars

\* A round with score 5 and then a round with score 0: current fell back to
\* 0, best is still 1.
C18_Witness ==
    /\ streak = [current |-> 0, best |-> 1, lastScore |-> 0]
    /\ Len(roundLog) = 2
    /\ roundLog[1].score = 5 /\ roundLog[2].score = 0
    /\ statsSince.rounds = 0

\* The entry a game-over of the local variant inserts, from the state before
\* and the score shown after.
C19_NewEntry ==
    [score |-> lastGameScore'[1], date |-> now, jumps |-> jumpCount,
     time |-> (now - roundStart + 500) \div 1000]

\* How many entries of the list rank before a new entry of score s: those
\* with a higher or an equal score.
C19_RankOf(s) == Cardinality({i \in DOMAIN leaderboard : leaderboard[i].score >= s})

\* The list is never longer than 5 and is ordered by score descending.
C19_TopFiveSorted ==
    variant = "local" =>
        /\ Len(leaderboard) <= 5
        /\ \A i, j \in DOMAIN leaderboard :
              i < j => leaderboard[i].score >= leaderboard[j].score

\* After a round completion the list is the previous list with the new
\* entry put behind every entry of a higher or equal score, cut to 5.
C19_InsertStep ==
    Len(roundLog') = Len(roundLog) + 1 =>
        LET k == C19_RankOf(lastGameScore'[1])
            all == SubSeq(leaderboard, 1, k) \o <<C19_NewEntry>>
                      \o SubSeq(leaderboard, k + 1, Len(leaderboard))
        IN  leaderboard' = SubSeq(all, 1, IF Len(all) > 5 THEN 5 ELSE Len(all))

\* [100,90,80,70,60] plus 85 gives [100,90,85,80,70].
C19_Scenario ==
    LET old == [i \in 1..5 |-> LocalEntry(110 - 10 * i, i, 0, 0)]
        new == UpdatedLeaderboard(old, LocalEntry(85, 6, 0, 0))
    IN  [i \in 1..Len(new) |-> new[i].score] = <<100, 90, 85, 80, 70>>

\* C19: local top-5 leaderboard. After each round completion the list is the
\* previous list plus the new entry, ordered by score descending and cut to
\* the first 5; entries with equal score keep arrival order (a new entry
\* ranks below existing entries of the same score and is the one dropped on
\* a full tie); the list always has at most 5 entries and is sorted
\* descending; [100,90,80,70,60] plus 85 gives [100,90,85,80,70].
C19_LocalTopFive == [](C19_TopFiveSorted /\ C19_Scenario) /\ [][C19_InsertStep]_vars

\* Into the stored list [9,5,5,0,0] a round with score 5 was put at the
\* fourth place, behind the two older 5s, dropping the younger 0; a round
\* with score 0 then tied with the last place and was dropped itself.
C19_Witness ==
    /\ variant = "local"
    /\ Len(roundLog) = 2
    /\ roundLog[1].score = 5 /\ roundLog[2].score = 0
    /\ Len(leaderboard) = 5
    /\ leaderboard[3].date = 3
    /\ leaderboard[4].score = 5 /\ leaderboard[4].date >= Epoch
    /\ leaderboard[5].date = 4

\* C20: the highlight index reported after a round is the position at which
\* that round's own entry sits in the resulting list, and it is -1 exactly
\* when that entry was truncated out, also when another entry has the same
\* score and the same timestamp as the inserted one.
C20_HighlightIsOwnPosition ==
    [][ Len(roundLog') = Len(roundLog) + 1 =>
          LET k == C19_RankOf(lastGameScore'[1])
          IN  newHighlight' = (IF k < 5 THEN k ELSE -1) ]_vars

\* An accepted game-over does all of its work in one handler run: the write
\* is issued and still in flight, the stats and the streak hold the round
\* and the state is GAME_OVER.
C21_HandlerStep ==
    Len(roundLog') = Len(roundLog) + 1 =>
        /\ Len(pushed') = Len(pushed) + 1
        /\ writeStatus' = Append(writeStatus, "pending")
        /\ sessionStats'.roundsPlayed = sessionStats.roundsPlayed + 1
        /\ streak'.lastScore = roundLog'[Len(roundLog')].score
        /\ storedStats' = sessionStats' /\ storedStreak' = streak'
        /\ gameState' = "GAME_OVER"

\* A write that comes back, saved or failed, changes nothing else.
C21_OutcomeStep ==
    (writeStatus' # writeStatus /\ Len(writeStatus') = Len(writeStatus)) =>
        UNCHANGED <<sessionStats, storedStats, streak, storedStreak, lastGameScore,
                    gameState, isGameActive, jumpCount, roundStart, leaderboard,
                    storedLeaderboard, pushed, roundLog>>

\* Nothing waits for a write: whatever the writes' outcomes, the summary
\* offers the retry (while rounds are left to follow) and the main menu.
C21_NothingWaits ==
    (variant = "arcade" /\ gameState = "GAME_OVER") =>
        /\ ENABLED HandleMainMenu
        /\ roundNo < MaxRounds => ENABLED HandleRetry

\* C21: shared-store mode. The game-over handler issues the leaderboard
\* write without waiting for it; in the same handler run the stats and the
\* streak are updated and the state becomes GAME_OVER, whether the write
\* later succeeds, fails or never completes, and a failed write changes no
\* local state.
C21_WriteNeverBlocks ==
    []C21_NothingWaits /\ [][C21_HandlerStep /\ C21_OutcomeStep]_vars

\* The first round's write has failed, the second round was played and
\* completed all the same, and its write is still in flight.
C21_Witness ==
    /\ Len(roundLog) = 2
    /\ writeStatus = <<"failed", "pending">>
    /\ gameState = "GAME_OVER"
    /\ sessionStats.roundsPlayed = 2
    /\ streak.lastScore = roundLog[2].score

\* Where entry i of a delivery belongs: behind every entry of a higher score
\* and behind the earlier entries of the same score.
C22_Place(data, i) ==
    Cardinality({j \in DOMAIN data : data[j].score > data[i].score})
    + Cardinality({j \in DOMAIN data : j < i /\ data[j].score = data[i].score}) + 1

\* After a delivery the view holds exactly the delivered entries, each at
\* its place; the empty snapshot gives the empty view.
C22_DeliveryStep ==
    \A data \in Snapshots :
        OnValue(data) =>
            /\ Len(leaderboard') = Len(data)
            /\ \A i \in DOMAIN data : leaderboard'[C22_Place(data, i)] = data[i]

\* The view changes only by a delivery or by the manual clear; an accepted
\* game-over leaves it and its stored copy as they are.
C22_ViewStep ==
    /\ leaderboard' # leaderboard =>
          (\E data \in Snapshots : OnValue(data)) \/ ResetLeaderboard
    /\ Len(roundLog') = Len(roundLog) + 1 =>
          UNCHANGED <<leaderboard, storedLeaderboard>>

\* C22: shared-store mode. After every subscription delivery the local
\* leaderboard view is exactly the delivered entries ordered by score
\* descending, equal scores in arrival order, and an empty snapshot yields
\* the empty view; round completion never changes the view, which changes
\* only through deliveries and the manual clear.
C22_ViewIsLastDelivery == [][C22_DeliveryStep /\ C22_ViewStep]_vars

\* A delivery of scores 9, 5, 9 is shown as 9, 9, 5 with the earlier 9
\* first, and a round completed since has put nothing into the view.
C22_Witness ==
    /\ variant = "arcade"
    /\ leaderboard = <<OtherEntry(9, 20), OtherEntry(9, 30), OtherEntry(5, 10)>>
    /\ Len(roundLog) = 1
    /\ Len(pushed) = 1
    /\ gameState = "GAME_OVER"

\* How often a trace names the callback.
C23_Callbacks(trace) == Cardinality({i \in DOMAIN trace : trace[i] = "callback"})

\* There is never more than one wrapper around the engine's gameOver, and
\* there is one exactly when the hook is marked as patched.
C23_WrappedAtMostOnce ==
    /\ wrappers <= 1
    /\ gameOverPatched <=> wrappers = 1

\* An engine game-over through the patched hook calls the callback once.
C23_GameOverStep ==
    (hookCalls' = hookCalls + 1 /\ gameOverPatched) =>
        C23_Callbacks(hookTrace') = 1

\* C23: the engine's completion hook is wrapped at most once per engine
\* instance, however many times the readiness poll or the installing effect
\* runs; hence one engine game-over invokes the registered game-over
\* callback exactly once.
C23_HookWrappedOnce == []C23_WrappedAtMostOnce /\ [][C23_GameOverStep]_vars

\* DinoGame's effect has run three times, the last poller has seen the
\* engine and cleared itself, and the second engine game-over has run the
\* callback and the original.
C23_Witness ==
    /\ variant = "arcade"
    /\ effectRuns = MaxEffectRuns
    /\ runnerReady /\ checkRunners = {}
    /\ wrappers = 1
    /\ hookCalls = 2
    /\ hookTrace = <<"callback", "original">>

\* C24: persistence is in step with memory. At the end of every handler run
\* (round completion, resetStats, leaderboard insertion or clear in local
\* mode) the persisted stats, streak and local leaderboard equal their
\* in-memory values, so termination between any two handlers loses no
\* completed round: the persisted stats count every round since they last
\* started from zero.
C24_PersistedEqualsMemory ==
    variant = "local" =>
        /\ storedStats = sessionStats
        /\ storedStreak = streak
        /\ storedLeaderboard = leaderboard
        /\ storedStats.roundsPlayed = Len(roundLog) - statsSince.rounds

\* Starting with nothing stored, a round was completed, the stats were
\* reset and a second round was completed: the stored list holds both
\* rounds, the stored stats the second.
C24_Witness ==
    /\ variant = "local"
    /\ Len(roundLog) = 2
    /\ statsSince.rounds = 1
    /\ Len(storedLeaderboard) = 2
    /\ storedStats.roundsPlayed = 1
    /\ storedStreak.current = 1

\* The sample is the average of the last frame with landmarks.
C25_SampleIsLastFrame == prevShoulder = lastSample

\* A JumpEvent is emitted only on a frame whose average lies more than the
\* threshold above that of the frame with landmarks just before it.
C25_EmitStep ==
    jumpLog' # jumpLog =>
        lastSample # << >> /\ lastSample[1] - lastSample'[1] > 400

\* C25: after every frame that carries landmarks, previousY equals that
\* frame's average shoulder y, whether or not a JumpEvent fired, also during
\* the refractory period and (in the guarded variant) while no round is
\* active; consequently a rise spread over several frames with each
\* per-frame diff <= 0.04 never emits a JumpEvent, however large the total.
C25_PreviousYAlwaysUpdated == []C25_SampleIsLastFrame /\ [][C25_EmitStep]_vars

\* In the instant of a jump to 0.5000, within the refractory period, a
\* frame at 0.5401 has replaced the sample and emitted nothing.
C25_Witness ==
    /\ variant = "arcade"
    /\ isGameActive
    /\ Len(jumpLog) = 1
    /\ jumpLog[1].t = now
    /\ keyUpTimers # << >>
    /\ lastSample = <<5401>>
    /\ prevShoulder = <<5401>>

\* The active flag is set exactly in PLAYING, and then a player is named.
C26_ActiveIffPlaying ==
    variant = "arcade" =>
        /\ isGameActive <=> gameState = "PLAYING"
        /\ isGameActive => playerNameRef # << >> /\ playerName = playerNameRef

\* An accepted game-over issues one write, under the player's name.
C26_AcceptedStep ==
    Len(roundLog') = Len(roundLog) + 1 =>
        /\ Len(pushed') = Len(pushed) + 1
        /\ pushed'[Len(pushed')].entry.name = playerNameRef
        /\ playerNameRef # << >>

\* C26: in every reachable state of the guarded variant the active flag is
\* true exactly when the controller state is PLAYING, and whenever it is
\* true the player name is non-empty, so every accepted game-over issues a
\* shared-store write.
C26_ActiveFlagMatchesState == []C26_ActiveIffPlaying /\ [][C26_AcceptedStep]_vars

\* The second round, started by a retry, is running under the name typed
\* before the first, whose write has been issued.
C26_Witness ==
    /\ variant = "arcade"
    /\ isGameActive /\ gameState = "PLAYING"
    /\ roundNo = 2
    /\ playerNameRef = <<"A", "B">>
    /\ Len(pushed) = 1 /\ pushed[1].entry.name = <<"A", "B">>
    /\ jumpCount = 1

\* A reset leaves the default streak in memory and in storage, and leaves
\* the leaderboard view and its stored copy as they are.
C27_ResetStep ==
    ResetStats(FALSE) =>
        /\ streak' = [current |-> 0, best |-> 0, lastScore |-> 0]
        /\ storedStreak' = [current |-> 0, best |-> 0, lastScore |-> 0]
        /\ UNCHANGED <<leaderboard, storedLeaderboard>>

\* The first round completed after a reset counts as a first round: its
\* streak is 1 of 1, whatever it scored and whatever was scored before.
C27_FirstRoundAfterReset ==
    (variant = "arcade" /\ Len(roundLog) = statsSince.rounds + 1) =>
        /\ streak.current = 1 /\ streak.best = 1
        /\ streak.lastScore = roundLog[Len(roundLog)].score
        /\ storedStreak = streak

\* C27: resetStats also resets the streak to {current: 0, best: 0,
\* lastScore: 0} in memory and in persisted storage (so the best streak can
\* decrease through a reset, and the next round counts as a first round),
\* while the leaderboard view and its persisted copy are left unchanged.
C27_ResetStatsResetsStreak == []C27_FirstRoundAfterReset /\ [][C27_ResetStep]_vars

\* A round scored 5, the stats were reset with the view showing a delivery,
\* and a round scoring 0 then counted as a first round: the streak is 1 of
\* 1 where it would have been 0 of 1, and the view is still shown.
C27_Witness ==
    /\ variant = "arcade"
    /\ Len(roundLog) = 2
    /\ roundLog[1].score = 5 /\ roundLog[2].score = 0
    /\ statsSince.rounds = 1
    /\ streak = [current |-> 1, best |-> 1, lastScore |-> 0]
    /\ leaderboard # << >>

\* An engine game-over through the patched hook runs the callback and then
\* the original gameOver, once each, whatever the controller state and
\* whether or not the handler accepts it.
C28_HookStep ==
    (hookCalls' = hookCalls + 1 /\ gameOverPatched) =>
        hookTrace' = <<"callback", "original">>

\* The handler accepts a game-over only in an active round.
C28_SuppressedStep ==
    (hookCalls' = hookCalls + 1 /\ ~isGameActive) => roundLog' = roundLog

\* C28: every invocation of the wrapped engine completion hook runs the
\* registered callback first and then the engine's original completion
\* logic exactly once, also when the active guard suppresses the handler
\* (duplicate notification, or game over while in START or GAME_OVER); the
\* wrapper never swallows the engine's own game-over.
C28_WrapperRunsOriginal == [][C28_HookStep /\ C28_SuppressedStep]_vars

\* Of three engine game-overs one ended the only round; the last one went
\* through the patched hook and ran callback and original.
C28_Witness ==
    /\ variant = "arcade"
    /\ hookCalls = 3
    /\ roundNo = 1
    /\ Len(roundLog) = 1
    /\ gameState = "GAME_OVER"
    /\ hookTrace = <<"callback", "original">>

\* The only interval that can be set is that of the latest effect run; a
\* poller whose interval is cleared cannot run, and no poller can change
\* anything while the engine is not there.
C29_Pollers ==
    /\ checkRunners \subseteq {effectRuns}
    /\ \A p \in PollerIds :
          /\ p \notin checkRunners =>
                ~ENABLED (CheckRunner(p) \/ CheckRunnerBasic(p))
          /\ ~runnerReady =>
                ~ENABLED <<CheckRunner(p) \/ CheckRunnerBasic(p)>>_vars

\* An interval is cleared by its own poller, which has seen the engine and
\* leaves the hook patched, or by the teardown of its effect; once cleared
\* it is never set again.
C29_ClearStep ==
    \A p \in PollerIds :
        /\ (p \in checkRunners /\ p \notin checkRunners') =>
              \/ runnerReady /\ gameOverPatched' /\ effectRuns' = effectRuns
              \/ effectRuns' = effectRuns + 1
        /\ (p \notin checkRunners /\ p <= effectRuns) => p \notin checkRunners'
        /\ effectRuns' # effectRuns => checkRunners' = {effectRuns'}

\* With the engine there, every poller's interval is cleared in the end.
C29_EveryPollerStops ==
    \A p \in PollerIds : (runnerReady /\ p \in checkRunners) ~> (p \notin checkRunners)

\* With the engine there, the hook is patched in the end.
C29_HookInstalled == runnerReady ~> gameOverPatched

\* C29: readiness polling terminates. If the engine instance eventually
\* becomes available, each 50 ms poller eventually observes it, ensures the
\* hook is installed and clears its own interval, after which it never runs
\* again; a poller is also cleared when its effect is torn down. While the
\* engine is unavailable the poller changes no state.
C29_PollingTerminates ==
    /\ []C29_Pollers
    /\ [][C29_ClearStep]_vars
    /\ C29_EveryPollerStops
    /\ C29_HookInstalled

\* The poller of DinoGame's second effect run has seen the engine and
\* cleared its own interval: no interval is set and the hook is patched.
C29_Witness ==
    /\ variant = "arcade"
    /\ effectRuns = 2
    /\ runnerReady /\ gameOverPatched
    /\ checkRunners = {}
    /\ hookCalls = 0

\* The key events alternate, starting with a key-down, and at most one
\* key-up is pending.
C30_Alternating ==
    /\ Len(keyUpTimers) <= 1
    /\ \A i \in DOMAIN keyLog :
          keyLog[i].kind = (IF i % 2 = 1 THEN "keydown" ELSE "keyup")
    /\ keyUpTimers # << >> <=> Len(keyLog) % 2 = 1

\* A pending key-up is dispatched in the end.
C30_KeyUpFollows == (keyUpTimers # << >>) ~> (keyUpTimers = << >>)

\* C30: because the refractory period (500 ms) exceeds the key-up delay
\* (100 ms), the synthetic key events produced by the detector strictly
\* alternate: the key-up of one jump is always dispatched before the
\* key-down of the next, so at most one key-up is pending at any time and
\* every key-down is eventually followed by its key-up.
C30_KeyEventsAlternate == []C30_Alternating /\ C30_KeyUpFollows

\* Two jumps 501 ms apart: down, up, down, with the second key-up pending.
C30_Witness ==
    /\ Len(keyLog) = 3
    /\ keyLog[2].kind = "keyup" /\ keyLog[2].t = Epoch + 100
    /\ keyLog[3].kind = "keydown" /\ keyLog[3].t = Epoch + 501
    /\ keyUpTimers = <<Epoch + 601>>

\* As many rounds are recorded as there were game-over notifications; each
\* recorded round reports the JumpEvents emitted since the notification
\* before it, and the counter holds those emitted since the last one.
C31_RoundsAreNotifications ==
    variant = "local" =>
        /\ Len(roundLog) = hookCalls
        /\ sessionStats.roundsPlayed = hookCalls - statsSince.rounds
        /\ \A i \in DOMAIN roundLog :
              /\ roundLog[i].round = i
              /\ roundLog[i].jumps = Cardinality(JumpsOfRound(i))
        /\ jumpCount = Cardinality(JumpsOfRound(Len(roundLog) + 1))

\* Every notification applies a round result and starts the next round.
C31_NotificationStep ==
    hookCalls' = hookCalls + 1 =>
        /\ roundLog' = Append(roundLog,
                [round |-> hookCalls + 1, score |-> lastGameScore'[1],
                 jumps |-> jumpCount, roundTime |-> now - roundStart])
        /\ sessionStats'.roundsPlayed = sessionStats.roundsPlayed + 1
        /\ sessionStats'.totalJumps = sessionStats.totalJumps + jumpCount
        /\ streak' = StreakFold(streak, lastGameScore'[1])
        /\ leaderboard' = UpdatedLeaderboard(leaderboard, C19_NewEntry)
        /\ jumpCount' = 0
        /\ roundStart' = now

\* A JumpEvent belongs to the round that the next notification records.
C31_JumpStep ==
    jumpLog' # jumpLog =>
        /\ jumpLog'[Len(jumpLog')].round = Len(roundLog) + 1
        /\ jumpCount' = jumpCount + 1

\* C31: in the local-leaderboard variant there is no active flag. Every
\* game-over notification applies a round result (roundsPlayed + 1, one
\* streak fold, one leaderboard insertion) and then sets jumpCount to 0 and
\* startedAt to now, so N notifications yield N recorded rounds, and jumps
\* detected after a game-over and before the engine restarts are counted
\* in the next recorded round.
C31_EveryNotificationIsARound ==
    []C31_RoundsAreNotifications /\ [][C31_NotificationStep /\ C31_JumpStep]_vars

\* Starting with nothing stored, a game-over at page load recorded a round
\* without jumps; a jump in the same instant, after it, was reported by the
\* round that the second game-over recorded.
C31_Witness ==
    /\ variant = "local"
    /\ hookCalls = 2
    /\ Len(jumpLog) = 1 /\ jumpLog[1].t = Epoch /\ jumpLog[1].round = 2
    /\ roundLog[1].jumps = 0 /\ roundLog[2].jumps = 1
    /\ sessionStats.roundsPlayed = 2
    /\ Len(leaderboard) = 2
    /\ \E i \in DOMAIN leaderboard : leaderboard[i].date = Epoch /\ leaderboard[i].jumps = 0

====
